---- MODULE Spec2Model ----
(***************************************************************************)
(* Model of the gooddata-typings library: the AFM type guards              *)
(* (src/AFM.ts), the shared embedding envelope (embedding/common.ts), the  *)
(* Analytical Designer commands and events (namespace                      *)
(* EmbeddedAnalyticalDesigner) and the KPI Dashboards commands and events  *)
(* (embedding/kd.ts, namespace EmbeddedKpiDashboards).                     *)
(*                                                                         *)
(* The library is a set of pure functions over JavaScript values.  A state *)
(* of the model is one call: the function called, its arguments, where the *)
(* tested value came from and the completion (return or throw) of the call.*)
(* Where the caller's objects matter (an object argument is passed by      *)
(* reference), heap holds them.                                            *)
(***************************************************************************)
EXTENDS Naturals, FiniteSets, Sequences, TLC

VARIABLES op, args, origin, res, heap

vars == <<op, args, origin, res, heap>>

(***************************************************************************)
(* JavaScript values.  Every value is a record of the same three fields:   *)
(* its kind, its primitive content (string content, number or boolean      *)
(* literal) and its own enumerable properties (objects and arrays; an      *)
(* array's properties are its indices "0", "1", ...).  A property that is  *)
(* present with the value undefined is a key of props mapped to Undefined; *)
(* an absent property is no key of props.                                  *)
(***************************************************************************)
NoProps == [k \in {} |-> ""]

JsValue(kind, prim, props) == [kind |-> kind, prim |-> prim, props |-> props]

Undefined == JsValue("undefined", "", NoProps)

Null == JsValue("null", "", NoProps)

JsTrue == JsValue("boolean", "true", NoProps)

JsFalse == JsValue("boolean", "false", NoProps)

JsBool(b) == IF b THEN JsTrue ELSE JsFalse

Str(s) == JsValue("string", s, NoProps)

Num(n) == JsValue("number", n, NoProps)

Arr(props) == JsValue("array", "", props)

Obj(props) == JsValue("object", "", props)

(***************************************************************************)
(* Completions: a call either returns a value or throws.                   *)
(***************************************************************************)
Ret(v) == [threw |-> FALSE, ret |-> v]

Throw == [threw |-> TRUE, ret |-> Undefined]

(***************************************************************************)
(* lodash isEmpty: null and undefined are empty; an array or a string is   *)
(* empty when its length is 0; any other value is empty when it has no own *)
(* enumerable property, which makes every number and boolean empty.        *)
(***************************************************************************)
isEmpty(value) ==
    CASE value.kind \in {"null", "undefined"} -> TRUE
      [] value.kind = "array" -> DOMAIN value.props = {}
      [] value.kind = "string" -> value.prim = ""
      [] OTHER -> DOMAIN value.props = {}

(***************************************************************************)
(* value.key for a value that is neither null nor undefined: the own       *)
(* property if there is one, undefined otherwise (no key read by the       *)
(* library is a property of a primitive's or an array's prototype).        *)
(***************************************************************************)
Get(value, key) ==
    IF key \in DOMAIN value.props THEN value.props[key] ELSE Undefined

(* value.key !== undefined; reading a property of null or undefined throws *)
\* a TypeError.
PropDefined(value, key) ==
    IF value.kind \in {"null", "undefined"}
    THEN Throw
    ELSE Ret(JsBool(Get(value, key) # Undefined))

(* value.key === literal, with the same TypeError on null and undefined.   *)
PropEquals(value, key, literal) ==
    IF value.kind \in {"null", "undefined"}
    THEN Throw
    ELSE Ret(JsBool(Get(value, key) = Str(literal)))

(* a && b, a a boolean that cannot throw: b is not evaluated when a is     *)
\* false.
AndAlso(a, b) == IF a THEN b ELSE Ret(JsFalse)

(* a || b over completions of boolean expressions.                         *)
OrElse(a, b) == IF a.threw \/ a.ret = JsTrue THEN a ELSE b

(***************************************************************************)
(* AFM type guards, src/AFM.ts                                             *)
(***************************************************************************)
(* Mutant: the loose comparison uri != undefined, which null fails too. *)
isObjectUriQualifier_LooseInequality(qualifier) ==
    AndAlso(~isEmpty(qualifier),
            IF qualifier.kind \in {"null", "undefined"}
            THEN Throw
            ELSE Ret(JsBool(Get(qualifier, "uri") \notin {Undefined, Null})))

isObjectUriQualifier(qualifier) ==
    AndAlso(~isEmpty(qualifier), PropDefined(qualifier, "uri"))

(* Mutant: the identifier guard reads uri, a copy of the guard above it. *)
isObjIdentifierQualifier_ReadsUri(qualifier) ==
    AndAlso(~isEmpty(qualifier), PropDefined(qualifier, "uri"))

isObjIdentifierQualifier(qualifier) ==
    AndAlso(~isEmpty(qualifier), PropDefined(qualifier, "identifier"))

isSimpleMeasureDefinition(definition) ==
    AndAlso(~isEmpty(definition), PropDefined(definition, "measure"))

(* Mutant: the arithmetic guard reads the key of the simple measure. *)
isArithmeticMeasureDefinition_ReadsMeasure(definition) ==
    AndAlso(~isEmpty(definition), PropDefined(definition, "measure"))

isArithmeticMeasureDefinition(definition) ==
    AndAlso(~isEmpty(definition), PropDefined(definition, "arithmeticMeasure"))

(* Mutant: the pop guard reads the key of the simple measure. *)
isPopMeasureDefinition_ReadsMeasure(definition) ==
    AndAlso(~isEmpty(definition), PropDefined(definition, "measure"))

isPopMeasureDefinition(definition) ==
    AndAlso(~isEmpty(definition), PropDefined(definition, "popMeasure"))

isPreviousPeriodMeasureDefinition(definition) ==
    AndAlso(~isEmpty(definition), PropDefined(definition, "previousPeriodMeasure"))

isAttributeSortItem(sortItem) ==
    AndAlso(~isEmpty(sortItem), PropDefined(sortItem, "attributeSortItem"))

(* Mutant: the guard also validates that the tagged content is an object. *)
isMeasureSortItem_ValidatesBody(sortItem) ==
    AndAlso(~isEmpty(sortItem),
            Ret(JsBool(Get(sortItem, "measureSortItem").kind = "object")))

(* Mutant: the guard wants a non-empty list of locators. *)
isMeasureSortItem_RequiresLocators(sortItem) ==
    AndAlso(~isEmpty(sortItem)
                /\ Get(Get(sortItem, "measureSortItem"), "locators").kind = "array"
                /\ ~isEmpty(Get(Get(sortItem, "measureSortItem"), "locators")),
            PropDefined(sortItem, "measureSortItem"))

isMeasureSortItem(sortItem) ==
    AndAlso(~isEmpty(sortItem), PropDefined(sortItem, "measureSortItem"))

isMeasureLocatorItem(locator) ==
    AndAlso(~isEmpty(locator), PropDefined(locator, "measureLocatorItem"))

isRelativeDateFilter(filter) ==
    AndAlso(~isEmpty(filter), PropDefined(filter, "relativeDateFilter"))

(* Mutant: the guard reads its key without the isEmpty test. *)
isAbsoluteDateFilter_Unguarded(filter) ==
    PropDefined(filter, "absoluteDateFilter")

isAbsoluteDateFilter(filter) ==
    AndAlso(~isEmpty(filter), PropDefined(filter, "absoluteDateFilter"))

(* Mutant: the date guard forgets the absolute date filter. *)
isDateFilter_RelativeOnly(filter) ==
    AndAlso(~isEmpty(filter), isRelativeDateFilter(filter))

isDateFilter(filter) ==
    AndAlso(~isEmpty(filter),
            OrElse(isRelativeDateFilter(filter), isAbsoluteDateFilter(filter)))

isPositiveAttributeFilter(filter) ==
    AndAlso(~isEmpty(filter), PropDefined(filter, "positiveAttributeFilter"))

isNegativeAttributeFilter(filter) ==
    AndAlso(~isEmpty(filter), PropDefined(filter, "negativeAttributeFilter"))

isAttributeFilter(filter) ==
    AndAlso(~isEmpty(filter),
            OrElse(isPositiveAttributeFilter(filter), isNegativeAttributeFilter(filter)))

isMeasureValueFilter(filter) ==
    AndAlso(~isEmpty(filter), PropDefined(filter, "measureValueFilter"))

(* Mutant: the guard reads the wrapper key expressionFilter. *)
isExpressionFilter_ReadsWrapper(filter) ==
    AndAlso(~isEmpty(filter), PropDefined(filter, "expressionFilter"))

isExpressionFilter(filter) ==
    AndAlso(~isEmpty(filter), PropDefined(filter, "value"))

(***************************************************************************)
(* Shared envelope, src/embedding/common.ts                                *)
(***************************************************************************)
AppCommandFailed == "appCommandFailed"

(* Mutant: the guard reads eventType without the isEmpty test. *)
isCommandFailed_Unguarded(obj) == PropEquals(obj, "eventType", AppCommandFailed)

(* Mutant: only the error codes of the Analytical Designer are accepted. *)
isCommandFailed_AdErrorsOnly(obj) ==
    AndAlso(~isEmpty(obj) /\ Get(Get(obj, "payload"), "errorCode").prim
                                 \in {"adError:invalidCommand",
                                      "adError:invalidArgument",
                                      "adError:invalidState", "adError:runtime"},
            PropEquals(obj, "eventType", AppCommandFailed))

isCommandFailed(obj) ==
    AndAlso(~isEmpty(obj), PropEquals(obj, "eventType", AppCommandFailed))

(***************************************************************************)
(* EmbeddedAnalyticalDesigner                                              *)
(***************************************************************************)
GdcAdCommandType ==
    [Save |-> "adSave", SaveAs |-> "adSaveAs", Export |-> "adExport",
     Undo |-> "adUndo", Redo |-> "adRedo"]

GdcAdEventType ==
    [NewInsightInitialized |-> "adNewInsightInitialized",
     InsightOpened |-> "adInsightOpened",
     InsightSaved |-> "adInsightSaved",
     UndoFinished |-> "adUndoFinished",
     RedoFinished |-> "adRedoFinished",
     ExportFinished |-> "adExportFinished"]

GdcAdErrorType ==
    [InvalidCommand |-> "adError:invalidCommand",
     InvalidArgument |-> "adError:invalidArgument",
     InvalidState |-> "adError:invalidState",
     RuntimeError |-> "adError:runtime"]

saveInsight(title, correlationId) ==
    Ret(Obj([commandType |-> Str(GdcAdCommandType.Save),
             correlationId |-> correlationId,
             payload |-> Obj([title |-> title])]))

(* Mutant: the guard also requires a payload. *)
isSaveCommand_RequiresPayload(obj) ==
    AndAlso(~isEmpty(obj) /\ Get(obj, "payload") # Undefined,
            PropEquals(obj, "commandType", GdcAdCommandType.Save))

isSaveCommand(obj) ==
    AndAlso(~isEmpty(obj), PropEquals(obj, "commandType", GdcAdCommandType.Save))

(* Mutant: saveInsightAs, copied from saveInsight, keeps its command type. *)
saveInsightAs_SaveType(title, correlationId) ==
    Ret(Obj([commandType |-> Str(GdcAdCommandType.Save),
             correlationId |-> correlationId,
             payload |-> Obj([title |-> title])]))

saveInsightAs(title, correlationId) ==
    Ret(Obj([commandType |-> Str(GdcAdCommandType.SaveAs),
             correlationId |-> correlationId,
             payload |-> Obj([title |-> title])]))

isSaveAsCommand(obj) ==
    AndAlso(~isEmpty(obj), PropEquals(obj, "commandType", GdcAdCommandType.SaveAs))

(* Mutant: exportInsight does not pass the correlationId on. *)
exportInsight_DropsCorrelationId(config, correlationId) ==
    Ret(Obj([commandType |-> Str(GdcAdCommandType.Export),
             correlationId |-> Undefined,
             payload |-> Obj([config |-> config])]))

exportInsight(config, correlationId) ==
    Ret(Obj([commandType |-> Str(GdcAdCommandType.Export),
             correlationId |-> correlationId,
             payload |-> Obj([config |-> config])]))

isExportCommand(obj) ==
    AndAlso(~isEmpty(obj), PropEquals(obj, "commandType", GdcAdCommandType.Export))

isUndoCommand(obj) ==
    AndAlso(~isEmpty(obj), PropEquals(obj, "commandType", GdcAdCommandType.Undo))

undo_OmitsCorrelationId(correlationId) ==
    IF correlationId = Undefined
    THEN Ret(Obj([commandType |-> Str(GdcAdCommandType.Undo)]))
    ELSE Ret(Obj([commandType |-> Str(GdcAdCommandType.Undo),
                  correlationId |-> correlationId]))

undo(correlationId) ==
    Ret(Obj([commandType |-> Str(GdcAdCommandType.Undo),
             correlationId |-> correlationId]))

(* Mutant: the guard compares with the Undo member. *)
isRedoCommand_TestsUndo(obj) ==
    AndAlso(~isEmpty(obj), PropEquals(obj, "commandType", GdcAdCommandType.Undo))

isRedoCommand(obj) ==
    AndAlso(~isEmpty(obj), PropEquals(obj, "commandType", GdcAdCommandType.Redo))

redo(correlationId) ==
    Ret(Obj([commandType |-> Str(GdcAdCommandType.Redo),
             correlationId |-> correlationId]))

isNewInsightInitialized(obj) ==
    AndAlso(~isEmpty(obj), PropEquals(obj, "eventType", GdcAdEventType.NewInsightInitialized))

isInsightOpened(obj) ==
    AndAlso(~isEmpty(obj), PropEquals(obj, "eventType", GdcAdEventType.InsightOpened))

isInsightSaved(obj) ==
    AndAlso(~isEmpty(obj), PropEquals(obj, "eventType", GdcAdEventType.InsightSaved))

isExportFinishedEvent(obj) ==
    AndAlso(~isEmpty(obj), PropEquals(obj, "eventType", GdcAdEventType.ExportFinished))

isUndoFinishedEvent(obj) ==
    AndAlso(~isEmpty(obj), PropEquals(obj, "eventType", GdcAdEventType.UndoFinished))

isRedoFinishedEvent(obj) ==
    AndAlso(~isEmpty(obj), PropEquals(obj, "eventType", GdcAdEventType.RedoFinished))

(***************************************************************************)
(* EmbeddedKpiDashboards, src/embedding/kd.ts                              *)
(***************************************************************************)
(* Mutant: the KD Save command reuses the literal of the AD Save command. *)
GdcKdCommandType_SaveLiteralOfAd ==
    [SwitchToEdit |-> "kdSwitchToEdit",
     DeleteDashboard |-> "kdDeleteDashboard",
     CancelEdit |-> "kdCancelEdit",
     Save |-> "adSave",
     AddWidget |-> "kdAddWidget",
     AddFilter |-> "kdAddFilter"]

GdcKdCommandType ==
    [SwitchToEdit |-> "kdSwitchToEdit",
     DeleteDashboard |-> "kdDeleteDashboard",
     CancelEdit |-> "kdCancelEdit",
     Save |-> "kdSave",
     AddWidget |-> "kdAddWidget",
     AddFilter |-> "kdAddFilter"]

GdcKdEventType ==
    [DashboardLoaded |-> "kdDashboardLoaded",
     SwitchedToEdit |-> "kdSwitchedToEdit",
     SwitchedToView |-> "kdSwitchedToView",
     DashboardSaved |-> "kdDashboardSaved",
     DashboardDeleted |-> "kdDashboardDeleted",
     WidgetAdded |-> "kdWidgetAdded",
     FilterAdded |-> "kdFilterAdded"]

GdcKdErrorType ==
    [InvalidCommand |-> "kdError:invalidCommand",
     InvalidArgument |-> "kdError:invalidArgument",
     InvalidState |-> "kdError:invalidState",
     RuntimeError |-> "kdError:runtime"]

switchToEdit(correlationId) ==
    Ret(Obj([commandType |-> Str(GdcKdCommandType.SwitchToEdit),
             correlationId |-> correlationId]))

isSwitchToEdit(obj) ==
    AndAlso(~isEmpty(obj), PropEquals(obj, "commandType", GdcKdCommandType.SwitchToEdit))

deleteDashboard(correlationId) ==
    Ret(Obj([commandType |-> Str(GdcKdCommandType.DeleteDashboard),
             correlationId |-> correlationId]))

isDeleteDashboard(obj) ==
    AndAlso(~isEmpty(obj), PropEquals(obj, "commandType", GdcKdCommandType.DeleteDashboard))

cancelEdit_EmptyPayload(correlationId) ==
    Ret(Obj([commandType |-> Str(GdcKdCommandType.CancelEdit),
             correlationId |-> correlationId,
             payload |-> Obj(NoProps)]))

cancelEdit(correlationId) ==
    Ret(Obj([commandType |-> Str(GdcKdCommandType.CancelEdit),
             correlationId |-> correlationId]))

isCancelEdit(obj) ==
    AndAlso(~isEmpty(obj), PropEquals(obj, "commandType", GdcKdCommandType.CancelEdit))

(* Mutant: the factory validates the title as the application does. *)
save_ValidatesTitle(title, correlationId) ==
    IF title \in {Str(""), Str("line1\nline2")}
    THEN Throw
    ELSE Ret(Obj([commandType |-> Str(GdcKdCommandType.Save),
                  correlationId |-> correlationId,
                  payload |-> Obj([title |-> title])]))

save(title, correlationId) ==
    Ret(Obj([commandType |-> Str(GdcKdCommandType.Save),
             correlationId |-> correlationId,
             payload |-> Obj([title |-> title])]))

(* Mutant: the command type is compared without regard to letter case. *)
isSave_IgnoresCase(obj) ==
    OrElse(AndAlso(~isEmpty(obj), PropEquals(obj, "commandType", "kdSave")),
           OrElse(AndAlso(~isEmpty(obj), PropEquals(obj, "commandType", "KDSAVE")),
                  AndAlso(~isEmpty(obj), PropEquals(obj, "commandType", "kdsave"))))

isSave(obj) ==
    AndAlso(~isEmpty(obj), PropEquals(obj, "commandType", GdcKdCommandType.Save))

addKpi(correlationId) ==
    Ret(Obj([commandType |-> Str(GdcKdCommandType.AddWidget),
             correlationId |-> correlationId,
             payload |-> Obj([widget |-> Obj([type |-> Str("kpi")])])]))

addInsight_KpiTag(ref, correlationId) ==
    Ret(Obj([commandType |-> Str(GdcKdCommandType.AddWidget),
             correlationId |-> correlationId,
             payload |-> Obj([widget |-> Obj([type |-> Str("kpi"),
                                              ref |-> ref])])]))

addInsight(ref, correlationId) ==
    Ret(Obj([commandType |-> Str(GdcKdCommandType.AddWidget),
             correlationId |-> correlationId,
             payload |-> Obj([widget |-> Obj([type |-> Str("insight"),
                                              ref |-> ref])])]))

isAddWidget(obj) ==
    AndAlso(~isEmpty(obj), PropEquals(obj, "commandType", GdcKdCommandType.AddWidget))

addFilter(correlationId) ==
    Ret(Obj([commandType |-> Str(GdcKdCommandType.AddFilter),
             correlationId |-> correlationId]))

isAddFilter(obj) ==
    AndAlso(~isEmpty(obj), PropEquals(obj, "commandType", GdcKdCommandType.AddFilter))

isDashboardLoaded(obj) ==
    AndAlso(~isEmpty(obj), PropEquals(obj, "eventType", GdcKdEventType.DashboardLoaded))

isSwitchedToEdit(obj) ==
    AndAlso(~isEmpty(obj), PropEquals(obj, "eventType", GdcKdEventType.SwitchedToEdit))

isSwitchedToView(obj) ==
    AndAlso(~isEmpty(obj), PropEquals(obj, "eventType", GdcKdEventType.SwitchedToView))

isDashboardSaved(obj) ==
    AndAlso(~isEmpty(obj), PropEquals(obj, "eventType", GdcKdEventType.DashboardSaved))

isDashboardDeleted(obj) ==
    AndAlso(~isEmpty(obj), PropEquals(obj, "eventType", GdcKdEventType.DashboardDeleted))

isWidgetAdded(obj) ==
    AndAlso(~isEmpty(obj), PropEquals(obj, "eventType", GdcKdEventType.WidgetAdded))

isFilterAdded(obj) ==
    AndAlso(~isEmpty(obj), PropEquals(obj, "eventType", GdcKdEventType.FilterAdded))

(***************************************************************************)
(* The declared signatures of the factories: the parameters in order, each *)
(* with its name and whether it is declared optional (name?: type).        *)
(***************************************************************************)
AdFactoryParameters ==
    [saveInsight |-> <<[name |-> "title", optional |-> FALSE],
                       [name |-> "correlationId", optional |-> TRUE]>>,
     saveInsightAs |-> <<[name |-> "title", optional |-> FALSE],
                         [name |-> "correlationId", optional |-> FALSE]>>,
     exportInsight |-> <<[name |-> "config", optional |-> FALSE],
                         [name |-> "correlationId", optional |-> FALSE]>>,
     undo |-> <<[name |-> "correlationId", optional |-> TRUE]>>,
     redo |-> <<[name |-> "correlationId", optional |-> TRUE]>>]

KdFactoryParameters ==
    [switchToEdit |-> <<[name |-> "correlationId", optional |-> TRUE]>>,
     deleteDashboard |-> <<[name |-> "correlationId", optional |-> TRUE]>>,
     cancelEdit |-> <<[name |-> "correlationId", optional |-> TRUE]>>,
     save |-> <<[name |-> "title", optional |-> FALSE],
                [name |-> "correlationId", optional |-> TRUE]>>,
     addKpi |-> <<[name |-> "correlationId", optional |-> TRUE]>>,
     addInsight |-> <<[name |-> "ref", optional |-> FALSE],
                      [name |-> "correlationId", optional |-> TRUE]>>,
     addFilter |-> <<[name |-> "correlationId", optional |-> TRUE]>>]

(***************************************************************************)
(* The declared message types.  An envelope type fixes the literal of its  *)
(* commandType or eventType field and names the type of its payload        *)
(* ("none" for IApplicationCommand, which has no payload).                 *)
(***************************************************************************)
CommonEnvelopeTypes ==
    [CommandFailed |-> [field |-> "eventType", literal |-> AppCommandFailed,
                        payload |-> "CommandFailedBody"]]

AdEnvelopeTypes ==
    [SaveCommand |-> [field |-> "commandType", literal |-> GdcAdCommandType.Save,
                      payload |-> "SaveCommandBody"],
     SaveAsCommand |-> [field |-> "commandType",
                        literal |-> GdcAdCommandType.SaveAs,
                        payload |-> "SaveAsCommandBody"],
     ExportCommand |-> [field |-> "commandType",
                        literal |-> GdcAdCommandType.Export,
                        payload |-> "ExportCommandBody"],
     UndoCommand |-> [field |-> "commandType", literal |-> GdcAdCommandType.Undo,
                      payload |-> "none"],
     RedoCommand |-> [field |-> "commandType", literal |-> GdcAdCommandType.Redo,
                      payload |-> "none"],
     NewInsightInitialized |-> [field |-> "eventType",
                                literal |-> GdcAdEventType.NewInsightInitialized,
                                payload |-> "NewInsightInitializedBody"],
     InsightOpened |-> [field |-> "eventType",
                        literal |-> GdcAdEventType.InsightOpened,
                        payload |-> "InsightOpenedBody"],
     InsightSaved |-> [field |-> "eventType",
                       literal |-> GdcAdEventType.InsightSaved,
                       payload |-> "InsightSavedBody"],
     ExportFinished |-> [field |-> "eventType",
                         literal |-> GdcAdEventType.ExportFinished,
                         payload |-> "ExportFinishedBody"],
     UndoFinished |-> [field |-> "eventType",
                       literal |-> GdcAdEventType.UndoFinished,
                       payload |-> "UndoFinishedBody"],
     RedoFinished |-> [field |-> "eventType",
                       literal |-> GdcAdEventType.RedoFinished,
                       payload |-> "RedoFinishedBody"]]

KdEnvelopeTypes ==
    [SwitchToEdit |-> [field |-> "commandType",
                       literal |-> GdcKdCommandType.SwitchToEdit,
                       payload |-> "none"],
     DeleteDashboard |-> [field |-> "commandType",
                          literal |-> GdcKdCommandType.DeleteDashboard,
                          payload |-> "none"],
     CancelEdit |-> [field |-> "commandType",
                     literal |-> GdcKdCommandType.CancelEdit, payload |-> "none"],
     Save |-> [field |-> "commandType", literal |-> GdcKdCommandType.Save,
               payload |-> "SaveBody"],
     AddWidget |-> [field |-> "commandType",
                    literal |-> GdcKdCommandType.AddWidget,
                    payload |-> "AddWidgetBody"],
     AddFilter |-> [field |-> "commandType",
                    literal |-> GdcKdCommandType.AddFilter, payload |-> "none"],
     DashboardLoaded |-> [field |-> "eventType",
                          literal |-> GdcKdEventType.DashboardLoaded,
                          payload |-> "DashboardLoadedBody"],
     SwitchedToEdit |-> [field |-> "eventType",
                         literal |-> GdcKdEventType.SwitchedToEdit,
                         payload |-> "SwitchedToEditBody"],
     SwitchedToView |-> [field |-> "eventType",
                         literal |-> GdcKdEventType.SwitchedToView,
                         payload |-> "SwitchedToViewBody"],
     DashboardSaved |-> [field |-> "eventType",
                         literal |-> GdcKdEventType.DashboardSaved,
                         payload |-> "DashboardSavedBody"],
     DashboardDeleted |-> [field |-> "eventType",
                           literal |-> GdcKdEventType.DashboardDeleted,
                           payload |-> "DashboardDeletedBody"],
     WidgetAdded |-> [field |-> "eventType",
                      literal |-> GdcKdEventType.WidgetAdded,
                      payload |-> "WidgetAddedBody"],
     FilterAdded |-> [field |-> "eventType",
                      literal |-> GdcKdEventType.FilterAdded,
                      payload |-> "FilterAddedBody"]]

(***************************************************************************)
(* The type each guard declares for an accepted object (obj is T).         *)
(***************************************************************************)
CommonGuardTypes == [isCommandFailed |-> "CommandFailed"]

AdGuardTypes ==
    [isSaveCommand |-> "SaveCommand", isSaveAsCommand |-> "SaveCommand",
     isExportCommand |-> "ExportCommand", isUndoCommand |-> "UndoCommand",
     isRedoCommand |-> "RedoCommand",
     isNewInsightInitialized |-> "NewInsightInitialized",
     isInsightOpened |-> "InsightOpened", isInsightSaved |-> "InsightSavedBody",
     isExportFinishedEvent |-> "ExportFinished",
     isUndoFinishedEvent |-> "UndoFinished",
     isRedoFinishedEvent |-> "RedoFinished"]

KdGuardTypes ==
    [isSwitchToEdit |-> "SwitchToEdit", isDeleteDashboard |-> "DeleteDashboard",
     isCancelEdit |-> "CancelEdit", isSave |-> "Save",
     isAddWidget |-> "AddWidget", isAddFilter |-> "AddFilter",
     isDashboardLoaded |-> "DashboardLoaded",
     isSwitchedToEdit |-> "SwitchedToEdit",
     isSwitchedToView |-> "SwitchedToView",
     isDashboardSaved |-> "DashboardSaved",
     isDashboardDeleted |-> "DashboardDeleted", isWidgetAdded |-> "WidgetAdded",
     isFilterAdded |-> "FilterAdded"]

(***************************************************************************)
(* The declared payload types.  A body type is an intersection of the      *)
(* aliases it extends (AvailableCommands & {...}) and its own fields, each *)
(* field with its name, its declared type and whether it is optional.      *)
(* AvailableCommands is declared once in each namespace.                   *)
(***************************************************************************)
(* Mutant: the failure payload lists the available commands as well. *)
CommonBodyTypes_WithAvailableCommands ==
    [CommandFailedBody |->
         [extends |-> {},
          fields |-> {[name |-> "errorCode", type |-> "TErrorCodes",
                       optional |-> FALSE],
                      [name |-> "errorMessage", type |-> "string",
                       optional |-> FALSE],
                      [name |-> "availableCommands", type |-> "string[]",
                       optional |-> FALSE]}]]

CommonBodyTypes ==
    [CommandFailedBody |->
         [extends |-> {},
          fields |-> {[name |-> "errorCode", type |-> "TErrorCodes",
                       optional |-> FALSE],
                      [name |-> "errorMessage", type |-> "string",
                       optional |-> FALSE]}]]

AdBodyTypes ==
    [AvailableCommands |->
         [extends |-> {},
          fields |-> {[name |-> "availableCommands",
                       type |-> "GdcAdCommandType[]", optional |-> FALSE]}],
     SaveCommandBody |->
         [extends |-> {},
          fields |-> {[name |-> "title", type |-> "string", optional |-> FALSE]}],
     SaveAsCommandBody |->
         [extends |-> {},
          fields |-> {[name |-> "title", type |-> "string", optional |-> FALSE]}],
     ExportCommandBody |->
         [extends |-> {},
          fields |-> {[name |-> "config", type |-> "IExportConfig",
                       optional |-> FALSE]}],
     NewInsightInitializedBody |->
         [extends |-> {"AvailableCommands"}, fields |-> {}],
     InsightOpenedBody |->
         [extends |-> {"AvailableCommands"},
          fields |-> {[name |-> "insight", type |-> "ObjectMeta",
                       optional |-> FALSE]}],
     InsightSavedBody |->
         [extends |-> {"AvailableCommands"},
          fields |-> {[name |-> "insight", type |-> "ObjectMeta",
                       optional |-> FALSE]}],
     ExportFinishedBody |->
         [extends |-> {"AvailableCommands"},
          fields |-> {[name |-> "link", type |-> "string", optional |-> FALSE]}],
     UndoFinishedBody |-> [extends |-> {"AvailableCommands"}, fields |-> {}],
     RedoFinishedBody |-> [extends |-> {"AvailableCommands"}, fields |-> {}]]

KdBodyTypes ==
    [AvailableCommands |->
         [extends |-> {},
          fields |-> {[name |-> "availableCommands",
                       type |-> "GdcKdCommandType[]", optional |-> FALSE]}],
     SaveBody |->
         [extends |-> {},
          fields |-> {[name |-> "title", type |-> "string", optional |-> FALSE]}],
     AddWidgetBody |->
         [extends |-> {},
          fields |-> {[name |-> "widget", type |-> "KpiWidget | InsightWidget",
                       optional |-> FALSE]}],
     DashboardLoadedBody |->
         [extends |-> {"AvailableCommands"},
          fields |-> {[name |-> "dashboard", type |-> "ObjectMeta",
                       optional |-> FALSE]}],
     SwitchedToEditBody |->
         [extends |-> {"AvailableCommands"},
          fields |-> {[name |-> "dashboard", type |-> "ObjectMeta",
                       optional |-> FALSE]}],
     SwitchedToViewBody |->
         [extends |-> {"AvailableCommands"},
          fields |-> {[name |-> "dashboard", type |-> "ObjectMeta",
                       optional |-> FALSE]}],
     DashboardSavedBody |->
         [extends |-> {"AvailableCommands"},
          fields |-> {[name |-> "dashboard", type |-> "ObjectMeta",
                       optional |-> FALSE]}],
     DashboardDeletedBody |->
         [extends |-> {"AvailableCommands"},
          fields |-> {[name |-> "dashboard", type |-> "ObjectMeta",
                       optional |-> FALSE]}],
     WidgetAddedBody |->
         [extends |-> {"AvailableCommands"},
          fields |-> {[name |-> "insight", type |-> "ObjectMeta",
                       optional |-> TRUE]}],
     FilterAddedBody |-> [extends |-> {"AvailableCommands"}, fields |-> {}]]

(***************************************************************************)
(* The values callers pass.  The guards take any value (obj: any, or a     *)
(* union type that is erased at run time), so the candidates are           *)
(* primitives of every kind, arrays, and objects that carry up to MaxKeys  *)
(* keys of one union, each with a content that is undefined, null, a       *)
(* string or a nested object, and message envelopes.                       *)
(***************************************************************************)
MaxKeys == 2

MaxArrayLen == 1

Absent == JsValue("absent", "", NoProps)

(* The object literal with the listed properties, the Absent ones left out.*)
ObjectOf(f) == Obj([k \in {x \in DOMAIN f : f[x] # Absent} |-> f[k]])

Contents ==
    {Undefined, Null, Str("/gdc/mock/id"), Obj([direction |-> Str("asc")])}

QualifierKeys == {"uri", "identifier", "title"}

MeasureDefinitionKeys ==
    {"measure", "arithmeticMeasure", "popMeasure", "previousPeriodMeasure"}

SortItemKeys == {"attributeSortItem", "measureSortItem"}

LocatorItemKeys == {"attributeLocatorItem", "measureLocatorItem"}

FilterKeys ==
    {"positiveAttributeFilter", "negativeAttributeFilter", "absoluteDateFilter",
     "relativeDateFilter", "measureValueFilter", "value", "expressionFilter"}

TaggedObjects(keys) ==
    {Obj(f) : f \in UNION {[T -> Contents] :
                              T \in {U \in SUBSET keys : Cardinality(U) <= MaxKeys}}}

ObjectMetas ==
    {Obj([identifier |-> Str("abc"), uri |-> Str("/gdc/md/p/obj/1"),
          title |-> Str("My Insight")])}

Primitives ==
    {Undefined, Null, JsTrue, JsFalse, Num("0"), Num("42"),
     Str(""), Str("uri"), Str("adSave")}

ArrayIndex == <<"0", "1", "2", "3">>

Arrays ==
    {Arr([k \in {ArrayIndex[i] : i \in 1..n} |-> e]) :
        n \in 0..MaxArrayLen, e \in {Str("uri"), Obj([uri |-> Str("/gdc/mock/id")])}}

EnumValues(enum) == {Str(enum[k]) : k \in DOMAIN enum}

CommandTypeOptions ==
    EnumValues(GdcAdCommandType) \cup EnumValues(GdcKdCommandType)
        \cup {Str("adsave"), Str("KDSAVE"), Null}

EventTypeOptions ==
    EnumValues(GdcAdEventType) \cup EnumValues(GdcKdEventType)
        \cup {Str(AppCommandFailed), Str("adinsightsaved"), Null}

TypePairs ==
    (CommandTypeOptions \X {Absent}) \cup ({Absent} \X EventTypeOptions)
        \cup ({Str(GdcAdCommandType.Save), Str(GdcKdCommandType.Save)}
                \X {Str(GdcAdEventType.InsightSaved), Str(AppCommandFailed)})

CorrelationOptions == {Absent, Undefined, Str("corr-1")}

PayloadOptions ==
    {Absent,
     Obj([title |-> Str("My Insight")]),
     Obj([errorCode |-> Str(GdcAdErrorType.InvalidState),
          errorMessage |-> Str("no dashboard")]),
     Obj([errorCode |-> Str(GdcKdErrorType.InvalidState),
          errorMessage |-> Str("no dashboard")])}

Envelopes ==
    {ObjectOf([commandType |-> t[1], eventType |-> t[2],
               correlationId |-> c, payload |-> p]) :
        t \in TypePairs, c \in CorrelationOptions, p \in PayloadOptions}

(* Filters, sort items and locators written as the declared shapes and as  *)
\* callers have them: the legacy expression filter flat and wrapped, measure
\* sort items with one, two, no and malformed locators, and their locators.
AfmSamples ==
    {Obj([value |-> Str("SELECT 1")]),
     Obj([expressionFilter |-> Obj([value |-> Str("SELECT 1")])]),
     Obj([attributeSortItem |-> Obj([direction |-> Str("asc"),
                                     attributeIdentifier |-> Str("a1")])]),
     Obj([measureLocatorItem |-> Obj([measureIdentifier |-> Str("m1")])]),
     Obj([attributeLocatorItem |-> Obj([attributeIdentifier |-> Str("a1"),
                                        element |-> Str("element")])])}
        \cup {Obj([measureSortItem |-> Obj([direction |-> Str("asc"),
                                            locators |-> l])]) :
                l \in {Arr(NoProps), Null, Str("m1"),
                       Arr("0" :> Null),
                       Arr("0" :> Obj([measureLocatorItem |->
                                           Obj([measureIdentifier |-> Str("m1")])])),
                       Arr("0" :> Obj([attributeLocatorItem |->
                                           Obj([attributeIdentifier |-> Str("a1"),
                                                element |-> Str("element")])])
                             @@ "1" :> Obj([measureLocatorItem |->
                                           Obj([measureIdentifier |-> Str("m1")])]))}}

Values ==
    Primitives \cup Arrays \cup ObjectMetas \cup Envelopes \cup AfmSamples
        \cup TaggedObjects(QualifierKeys) \cup TaggedObjects(MeasureDefinitionKeys)
        \cup TaggedObjects(SortItemKeys) \cup TaggedObjects(LocatorItemKeys)
        \cup TaggedObjects(FilterKeys)

(* Arguments of the factories.  An omitted correlationId is undefined.     *)
Titles == {Str(""), Str("My Insight"), Str("line1\nline2")}

CorrelationIds == {Undefined, Str("corr-1"), Str("corr-2")}

ExportConfigs ==
    {Obj(NoProps), Obj([format |-> Str("csv"), showFilters |-> JsTrue])}

InsightRefs ==
    {Obj([identifier |-> Str("abc")]), Obj([uri |-> Str("/gdc/md/p/obj/1")])}

FactoryNames ==
    {"saveInsight", "saveInsightAs", "exportInsight", "undo", "redo",
     "switchToEdit", "deleteDashboard", "cancelEdit", "save",
     "addKpi", "addInsight", "addFilter"}

(***************************************************************************)
(* The calls.  The functions are pure and keep nothing between calls, so a *)
(* behaviour is one call on values of the caller, or a factory call        *)
(* followed by one guard called on the command the factory returned.       *)
(***************************************************************************)
Init ==
    /\ op = "none"
    /\ args = << >>
    /\ origin = "caller"
    /\ res = Ret(Undefined)
    /\ heap = << >>

Inputs ==
    CASE op = "none" -> {[val |-> v, from |-> "caller"] : v \in Values}
      [] op \in FactoryNames /\ ~res.threw -> {[val |-> res.ret, from |-> op]}
      [] OTHER -> {}

Test(name, input, completion) ==
    /\ op' = name
    /\ args' = <<input.val>>
    /\ origin' = input.from
    /\ res' = completion
    /\ UNCHANGED heap

Build(name, arguments, completion) ==
    /\ op' = name
    /\ args' = arguments
    /\ origin' = "caller"
    /\ res' = completion
    /\ UNCHANGED heap

Call_isObjectUriQualifier ==
    \E i \in Inputs : Test("isObjectUriQualifier", i, isObjectUriQualifier(i.val))

Call_isObjIdentifierQualifier ==
    \E i \in Inputs : Test("isObjIdentifierQualifier", i, isObjIdentifierQualifier(i.val))

Call_isSimpleMeasureDefinition ==
    \E i \in Inputs : Test("isSimpleMeasureDefinition", i, isSimpleMeasureDefinition(i.val))

Call_isArithmeticMeasureDefinition ==
    \E i \in Inputs : Test("isArithmeticMeasureDefinition", i, isArithmeticMeasureDefinition(i.val))

Call_isPopMeasureDefinition ==
    \E i \in Inputs : Test("isPopMeasureDefinition", i, isPopMeasureDefinition(i.val))

Call_isPreviousPeriodMeasureDefinition ==
    \E i \in Inputs : Test("isPreviousPeriodMeasureDefinition", i, isPreviousPeriodMeasureDefinition(i.val))

Call_isAttributeSortItem ==
    \E i \in Inputs : Test("isAttributeSortItem", i, isAttributeSortItem(i.val))

Call_isMeasureSortItem ==
    \E i \in Inputs : Test("isMeasureSortItem", i, isMeasureSortItem(i.val))

Call_isMeasureLocatorItem ==
    \E i \in Inputs : Test("isMeasureLocatorItem", i, isMeasureLocatorItem(i.val))

Call_isDateFilter ==
    \E i \in Inputs : Test("isDateFilter", i, isDateFilter(i.val))

Call_isRelativeDateFilter ==
    \E i \in Inputs : Test("isRelativeDateFilter", i, isRelativeDateFilter(i.val))

Call_isAbsoluteDateFilter ==
    \E i \in Inputs : Test("isAbsoluteDateFilter", i, isAbsoluteDateFilter(i.val))

Call_isAttributeFilter ==
    \E i \in Inputs : Test("isAttributeFilter", i, isAttributeFilter(i.val))

Call_isPositiveAttributeFilter ==
    \E i \in Inputs : Test("isPositiveAttributeFilter", i, isPositiveAttributeFilter(i.val))

Call_isNegativeAttributeFilter ==
    \E i \in Inputs : Test("isNegativeAttributeFilter", i, isNegativeAttributeFilter(i.val))

Call_isMeasureValueFilter ==
    \E i \in Inputs : Test("isMeasureValueFilter", i, isMeasureValueFilter(i.val))

Call_isExpressionFilter ==
    \E i \in Inputs : Test("isExpressionFilter", i, isExpressionFilter(i.val))

Call_isCommandFailed ==
    \E i \in Inputs : Test("isCommandFailed", i, isCommandFailed(i.val))

Call_isSaveCommand ==
    \E i \in Inputs : Test("isSaveCommand", i, isSaveCommand(i.val))

Call_isSaveAsCommand ==
    \E i \in Inputs : Test("isSaveAsCommand", i, isSaveAsCommand(i.val))

Call_isExportCommand ==
    \E i \in Inputs : Test("isExportCommand", i, isExportCommand(i.val))

Call_isUndoCommand ==
    \E i \in Inputs : Test("isUndoCommand", i, isUndoCommand(i.val))

Call_isRedoCommand ==
    \E i \in Inputs : Test("isRedoCommand", i, isRedoCommand(i.val))

Call_isNewInsightInitialized ==
    \E i \in Inputs : Test("isNewInsightInitialized", i, isNewInsightInitialized(i.val))

Call_isInsightOpened ==
    \E i \in Inputs : Test("isInsightOpened", i, isInsightOpened(i.val))

Call_isInsightSaved ==
    \E i \in Inputs : Test("isInsightSaved", i, isInsightSaved(i.val))

Call_isExportFinishedEvent ==
    \E i \in Inputs : Test("isExportFinishedEvent", i, isExportFinishedEvent(i.val))

Call_isUndoFinishedEvent ==
    \E i \in Inputs : Test("isUndoFinishedEvent", i, isUndoFinishedEvent(i.val))

Call_isRedoFinishedEvent ==
    \E i \in Inputs : Test("isRedoFinishedEvent", i, isRedoFinishedEvent(i.val))

Call_isSwitchToEdit ==
    \E i \in Inputs : Test("isSwitchToEdit", i, isSwitchToEdit(i.val))

Call_isDeleteDashboard ==
    \E i \in Inputs : Test("isDeleteDashboard", i, isDeleteDashboard(i.val))

Call_isCancelEdit ==
    \E i \in Inputs : Test("isCancelEdit", i, isCancelEdit(i.val))

Call_isSave ==
    \E i \in Inputs : Test("isSave", i, isSave(i.val))

Call_isAddWidget ==
    \E i \in Inputs : Test("isAddWidget", i, isAddWidget(i.val))

Call_isAddFilter ==
    \E i \in Inputs : Test("isAddFilter", i, isAddFilter(i.val))

Call_isDashboardLoaded ==
    \E i \in Inputs : Test("isDashboardLoaded", i, isDashboardLoaded(i.val))

Call_isSwitchedToEdit ==
    \E i \in Inputs : Test("isSwitchedToEdit", i, isSwitchedToEdit(i.val))

Call_isSwitchedToView ==
    \E i \in Inputs : Test("isSwitchedToView", i, isSwitchedToView(i.val))

Call_isDashboardSaved ==
    \E i \in Inputs : Test("isDashboardSaved", i, isDashboardSaved(i.val))

Call_isDashboardDeleted ==
    \E i \in Inputs : Test("isDashboardDeleted", i, isDashboardDeleted(i.val))

Call_isWidgetAdded ==
    \E i \in Inputs : Test("isWidgetAdded", i, isWidgetAdded(i.val))

Call_isFilterAdded ==
    \E i \in Inputs : Test("isFilterAdded", i, isFilterAdded(i.val))

Call_saveInsight ==
    /\ op = "none"
    /\ \E title \in Titles, correlationId \in CorrelationIds :
           Build("saveInsight", <<title, correlationId>>, saveInsight(title, correlationId))

Call_saveInsightAs ==
    /\ op = "none"
    /\ \E title \in Titles, correlationId \in CorrelationIds :
           Build("saveInsightAs", <<title, correlationId>>, saveInsightAs(title, correlationId))

Call_save ==
    /\ op = "none"
    /\ \E title \in Titles, correlationId \in CorrelationIds :
           Build("save", <<title, correlationId>>, save(title, correlationId))

Call_exportInsight ==
    /\ op = "none"
    /\ \E config \in ExportConfigs, correlationId \in CorrelationIds :
           Build("exportInsight", <<config, correlationId>>,
                 exportInsight(config, correlationId))

Call_addInsight ==
    /\ op = "none"
    /\ \E ref \in InsightRefs, correlationId \in CorrelationIds :
           Build("addInsight", <<ref, correlationId>>, addInsight(ref, correlationId))

Call_undo ==
    /\ op = "none"
    /\ \E correlationId \in CorrelationIds :
           Build("undo", <<correlationId>>, undo(correlationId))

Call_redo ==
    /\ op = "none"
    /\ \E correlationId \in CorrelationIds :
           Build("redo", <<correlationId>>, redo(correlationId))

Call_switchToEdit ==
    /\ op = "none"
    /\ \E correlationId \in CorrelationIds :
           Build("switchToEdit", <<correlationId>>, switchToEdit(correlationId))

Call_deleteDashboard ==
    /\ op = "none"
    /\ \E correlationId \in CorrelationIds :
           Build("deleteDashboard", <<correlationId>>, deleteDashboard(correlationId))

Call_cancelEdit ==
    /\ op = "none"
    /\ \E correlationId \in CorrelationIds :
           Build("cancelEdit", <<correlationId>>, cancelEdit(correlationId))

Call_addKpi ==
    /\ op = "none"
    /\ \E correlationId \in CorrelationIds :
           Build("addKpi", <<correlationId>>, addKpi(correlationId))

Call_addFilter ==
    /\ op = "none"
    /\ \E correlationId \in CorrelationIds :
           Build("addFilter", <<correlationId>>, addFilter(correlationId))

Next ==
    \/ Call_isObjectUriQualifier
    \/ Call_isObjIdentifierQualifier
    \/ Call_isSimpleMeasureDefinition
    \/ Call_isArithmeticMeasureDefinition
    \/ Call_isPopMeasureDefinition
    \/ Call_isPreviousPeriodMeasureDefinition
    \/ Call_isAttributeSortItem
    \/ Call_isMeasureSortItem
    \/ Call_isMeasureLocatorItem
    \/ Call_isDateFilter
    \/ Call_isRelativeDateFilter
    \/ Call_isAbsoluteDateFilter
    \/ Call_isAttributeFilter
    \/ Call_isPositiveAttributeFilter
    \/ Call_isNegativeAttributeFilter
    \/ Call_isMeasureValueFilter
    \/ Call_isExpressionFilter
    \/ Call_isCommandFailed
    \/ Call_isSaveCommand
    \/ Call_isSaveAsCommand
    \/ Call_isExportCommand
    \/ Call_isUndoCommand
    \/ Call_isRedoCommand
    \/ Call_isNewInsightInitialized
    \/ Call_isInsightOpened
    \/ Call_isInsightSaved
    \/ Call_isExportFinishedEvent
    \/ Call_isUndoFinishedEvent
    \/ Call_isRedoFinishedEvent
    \/ Call_isSwitchToEdit
    \/ Call_isDeleteDashboard
    \/ Call_isCancelEdit
    \/ Call_isSave
    \/ Call_isAddWidget
    \/ Call_isAddFilter
    \/ Call_isDashboardLoaded
    \/ Call_isSwitchedToEdit
    \/ Call_isSwitchedToView
    \/ Call_isDashboardSaved
    \/ Call_isDashboardDeleted
    \/ Call_isWidgetAdded
    \/ Call_isFilterAdded
    \/ Call_saveInsight
    \/ Call_saveInsightAs
    \/ Call_exportInsight
    \/ Call_undo
    \/ Call_redo
    \/ Call_switchToEdit
    \/ Call_deleteDashboard
    \/ Call_cancelEdit
    \/ Call_save
    \/ Call_addKpi
    \/ Call_addInsight
    \/ Call_addFilter

Spec == Init /\ [][Next]_vars

(***************************************************************************)
(* Vocabulary of the properties below.                                     *)
(***************************************************************************)
AfmGuards ==
    {"isObjectUriQualifier", "isObjIdentifierQualifier", "isSimpleMeasureDefinition",
     "isArithmeticMeasureDefinition", "isPopMeasureDefinition", "isPreviousPeriodMeasureDefinition",
     "isAttributeSortItem", "isMeasureSortItem", "isMeasureLocatorItem",
     "isDateFilter", "isRelativeDateFilter", "isAbsoluteDateFilter",
     "isAttributeFilter", "isPositiveAttributeFilter", "isNegativeAttributeFilter",
     "isMeasureValueFilter", "isExpressionFilter"}

CommandGuards ==
    {"isSaveCommand", "isSaveAsCommand", "isExportCommand",
     "isUndoCommand", "isRedoCommand", "isSwitchToEdit",
     "isDeleteDashboard", "isCancelEdit", "isSave",
     "isAddWidget", "isAddFilter"}

EventGuards ==
    {"isCommandFailed", "isNewInsightInitialized", "isInsightOpened",
     "isInsightSaved", "isExportFinishedEvent", "isUndoFinishedEvent",
     "isRedoFinishedEvent", "isDashboardLoaded", "isSwitchedToEdit",
     "isSwitchedToView", "isDashboardSaved", "isDashboardDeleted",
     "isWidgetAdded", "isFilterAdded"}

GuardNames == AfmGuards \cup CommandGuards \cup EventGuards

(* The guard of the given name applied to v. *)
Guard(name, v) ==
    CASE name = "isObjectUriQualifier" -> isObjectUriQualifier(v)
      [] name = "isObjIdentifierQualifier" -> isObjIdentifierQualifier(v)
      [] name = "isSimpleMeasureDefinition" -> isSimpleMeasureDefinition(v)
      [] name = "isArithmeticMeasureDefinition" -> isArithmeticMeasureDefinition(v)
      [] name = "isPopMeasureDefinition" -> isPopMeasureDefinition(v)
      [] name = "isPreviousPeriodMeasureDefinition" -> isPreviousPeriodMeasureDefinition(v)
      [] name = "isAttributeSortItem" -> isAttributeSortItem(v)
      [] name = "isMeasureSortItem" -> isMeasureSortItem(v)
      [] name = "isMeasureLocatorItem" -> isMeasureLocatorItem(v)
      [] name = "isDateFilter" -> isDateFilter(v)
      [] name = "isRelativeDateFilter" -> isRelativeDateFilter(v)
      [] name = "isAbsoluteDateFilter" -> isAbsoluteDateFilter(v)
      [] name = "isAttributeFilter" -> isAttributeFilter(v)
      [] name = "isPositiveAttributeFilter" -> isPositiveAttributeFilter(v)
      [] name = "isNegativeAttributeFilter" -> isNegativeAttributeFilter(v)
      [] name = "isMeasureValueFilter" -> isMeasureValueFilter(v)
      [] name = "isExpressionFilter" -> isExpressionFilter(v)
      [] name = "isCommandFailed" -> isCommandFailed(v)
      [] name = "isSaveCommand" -> isSaveCommand(v)
      [] name = "isSaveAsCommand" -> isSaveAsCommand(v)
      [] name = "isExportCommand" -> isExportCommand(v)
      [] name = "isUndoCommand" -> isUndoCommand(v)
      [] name = "isRedoCommand" -> isRedoCommand(v)
      [] name = "isNewInsightInitialized" -> isNewInsightInitialized(v)
      [] name = "isInsightOpened" -> isInsightOpened(v)
      [] name = "isInsightSaved" -> isInsightSaved(v)
      [] name = "isExportFinishedEvent" -> isExportFinishedEvent(v)
      [] name = "isUndoFinishedEvent" -> isUndoFinishedEvent(v)
      [] name = "isRedoFinishedEvent" -> isRedoFinishedEvent(v)
      [] name = "isSwitchToEdit" -> isSwitchToEdit(v)
      [] name = "isDeleteDashboard" -> isDeleteDashboard(v)
      [] name = "isCancelEdit" -> isCancelEdit(v)
      [] name = "isSave" -> isSave(v)
      [] name = "isAddWidget" -> isAddWidget(v)
      [] name = "isAddFilter" -> isAddFilter(v)
      [] name = "isDashboardLoaded" -> isDashboardLoaded(v)
      [] name = "isSwitchedToEdit" -> isSwitchedToEdit(v)
      [] name = "isSwitchedToView" -> isSwitchedToView(v)
      [] name = "isDashboardSaved" -> isDashboardSaved(v)
      [] name = "isDashboardDeleted" -> isDashboardDeleted(v)
      [] name = "isWidgetAdded" -> isWidgetAdded(v)
      [] name = "isFilterAdded" -> isFilterAdded(v)

IsTrue(completion) == ~completion.threw /\ completion.ret = JsTrue

IsFalse(completion) == ~completion.threw /\ completion.ret = JsFalse

(* v is an object with an own property key, whatever its value. *)
Possesses(v, key) == v.kind = "object" /\ key \in DOMAIN v.props

(* v is an object whose property key has a value other than undefined. *)
Carries(v, key) == Possesses(v, key) /\ v.props[key] # Undefined

(* v was constructed as the variant tagged key: that key only, defined. *)
ConstructedAs(v, key) ==
    v.kind = "object" /\ DOMAIN v.props = {key} /\ v.props[key] # Undefined

(* Not null, not undefined, not the empty object. *)
NonEmptyValue(v) == v \notin {Null, Undefined, Obj(NoProps)}

(* The discriminator properties each AFM guard stands for. *)
AfmGuardTags ==
    [isObjectUriQualifier |-> {"uri"},
     isObjIdentifierQualifier |-> {"identifier"},
     isSimpleMeasureDefinition |-> {"measure"},
     isArithmeticMeasureDefinition |-> {"arithmeticMeasure"},
     isPopMeasureDefinition |-> {"popMeasure"},
     isPreviousPeriodMeasureDefinition |-> {"previousPeriodMeasure"},
     isAttributeSortItem |-> {"attributeSortItem"},
     isMeasureSortItem |-> {"measureSortItem"},
     isMeasureLocatorItem |-> {"measureLocatorItem"},
     isDateFilter |-> {"relativeDateFilter", "absoluteDateFilter"},
     isRelativeDateFilter |-> {"relativeDateFilter"},
     isAbsoluteDateFilter |-> {"absoluteDateFilter"},
     isAttributeFilter |-> {"positiveAttributeFilter", "negativeAttributeFilter"},
     isPositiveAttributeFilter |-> {"positiveAttributeFilter"},
     isNegativeAttributeFilter |-> {"negativeAttributeFilter"},
     isMeasureValueFilter |-> {"measureValueFilter"},
     isExpressionFilter |-> {"value"}]

(* The tagged unions that have one guard per variant, as variant tags. *)
UnionTags ==
    {{"uri", "identifier"},
     {"measure", "arithmeticMeasure", "popMeasure", "previousPeriodMeasure"},
     {"attributeSortItem", "measureSortItem"},
     {"positiveAttributeFilter", "negativeAttributeFilter", "absoluteDateFilter",
      "relativeDateFilter", "measureValueFilter", "value"}}

(* The guards of one variant each (the two OR-guards are not). *)
VariantGuards == {g \in AfmGuards : Cardinality(AfmGuardTags[g]) = 1}

VariantTag(g) == CHOOSE k \in AfmGuardTags[g] : TRUE

MeasureGuards ==
    {"isSimpleMeasureDefinition", "isArithmeticMeasureDefinition",
     "isPopMeasureDefinition", "isPreviousPeriodMeasureDefinition"}

QualifierGuards == {"isObjectUriQualifier", "isObjIdentifierQualifier"}

(* The field an embedding guard reads. *)
GuardField(g) == IF g \in CommandGuards THEN "commandType" ELSE "eventType"

(* The guard that matches each factory and the documented command type. *)
MatchingGuard ==
    [saveInsight |-> "isSaveCommand", saveInsightAs |-> "isSaveAsCommand",
     exportInsight |-> "isExportCommand", undo |-> "isUndoCommand",
     redo |-> "isRedoCommand", switchToEdit |-> "isSwitchToEdit",
     deleteDashboard |-> "isDeleteDashboard", cancelEdit |-> "isCancelEdit",
     save |-> "isSave", addKpi |-> "isAddWidget", addInsight |-> "isAddWidget",
     addFilter |-> "isAddFilter"]

DocumentedLiteral ==
    [saveInsight |-> "adSave", saveInsightAs |-> "adSaveAs",
     exportInsight |-> "adExport", undo |-> "adUndo", redo |-> "adRedo",
     switchToEdit |-> "kdSwitchToEdit", deleteDashboard |-> "kdDeleteDashboard",
     cancelEdit |-> "kdCancelEdit", save |-> "kdSave", addKpi |-> "kdAddWidget",
     addInsight |-> "kdAddWidget", addFilter |-> "kdAddFilter"]

(***************************************************************************)
(* Calls on objects the caller owns.  An object argument is passed by      *)
(* reference: heap holds objects by address, a call receives               *)
(* Reference(address), and the state after the call holds the heap as the  *)
(* call left it.  The caller holds an InsightRef and an IExportConfig, and *)
(* either an object it tests with the guards or nothing more, in which     *)
(* case it builds commands and may afterwards assign to a property of an   *)
(* object it holds.  No function of the library assigns to a property, so  *)
(* a call leaves every existing object as it was; every object literal a   *)
(* factory evaluates is a new object at a new address, and a parameter     *)
(* stored in a literal is stored as the reference that was passed.         *)
(***************************************************************************)
Reference(address) == JsValue("reference", address, NoProps)

(* The objects a caller holds and passes to a guard. *)
TestedObjects == {v \in Values : v.kind = "object"}

(* The addresses of the objects the factories create, in order of use. *)
AddressPool == <<"@1", "@2", "@3", "@4", "@5", "@6">>

NewAddress(h) ==
    LET free == {i \in DOMAIN AddressPool : AddressPool[i] \notin DOMAIN h}
    IN  IF free = {} THEN "@overflow"
        ELSE AddressPool[CHOOSE i \in free : \A j \in free : i <= j]

(* Evaluation of an object literal: the nested literals first, then the    *)
\* object itself, each at a new address; other values are stored as given.
RECURSIVE Allocate(_, _), AllocateProps(_, _, _)

Allocate(h, v) ==
    IF v.kind # "object"
    THEN [heap |-> h, value |-> v]
    ELSE LET r == AllocateProps(h, v.props, DOMAIN v.props)
         IN  [heap |-> r.heap @@ (NewAddress(r.heap) :> Obj(r.props)),
              value |-> Reference(NewAddress(r.heap))]

AllocateProps(h, props, keys) ==
    IF keys = {}
    THEN [heap |-> h, props |-> props]
    ELSE LET k == CHOOSE x \in keys : TRUE
             r == Allocate(h, props[k])
         IN  AllocateProps(r.heap, [props EXCEPT ![k] = r.value], keys \ {k})

(* Mutant: the factory tags the caller's ref object before it stores it. *)
addInsight_TagsRef(h, ref, correlationId) ==
    LET tagged == [h EXCEPT ![ref] =
                       Obj([k \in DOMAIN h[ref].props \cup {"type"} |->
                                IF k = "type" THEN Str("insight")
                                ELSE h[ref].props[k]])]
        r == Allocate(tagged, addInsight(Reference(ref), correlationId).ret)
    IN  [completion |-> Ret(r.value), heap |-> r.heap]

(* Mutant: the factory stores a copy of the ref object ({...ref}). *)
addInsight_CopiesRef(h, ref, correlationId) ==
    LET r == Allocate(h, addInsight(h[ref], correlationId).ret)
    IN  [completion |-> Ret(r.value), heap |-> r.heap]

addInsight_OnHeap(h, ref, correlationId) ==
    LET r == Allocate(h, addInsight(Reference(ref), correlationId).ret)
    IN  [completion |-> Ret(r.value), heap |-> r.heap]

exportInsight_OnHeap(h, config, correlationId) ==
    LET r == Allocate(h, exportInsight(Reference(config), correlationId).ret)
    IN  [completion |-> Ret(r.value), heap |-> r.heap]

HeapInit ==
    /\ op = "none"
    /\ args = << >>
    /\ origin = "caller"
    /\ res = Ret(Undefined)
    /\ \E ref \in InsightRefs, config \in ExportConfigs :
           \/ heap = [a \in {"ref", "config"} |->
                          IF a = "ref" THEN ref ELSE config]
           \/ \E value \in TestedObjects :
                  heap = [a \in {"ref", "config", "value"} |->
                              CASE a = "ref" -> ref
                                [] a = "config" -> config
                                [] OTHER -> value]

HeapCall_guard ==
    /\ op = "none"
    /\ "value" \in DOMAIN heap
    /\ \E g \in GuardNames :
           /\ op' = g
           /\ args' = <<Reference("value")>>
           /\ origin' = "caller"
           /\ res' = Guard(g, heap["value"])
           /\ heap' = heap

(* The caller that builds commands: no call yet or factory calls only. *)
Building ==
    /\ op \in {"none", "addKpi", "addInsight", "exportInsight"}
    /\ "value" \notin DOMAIN heap

HeapCall_addKpi ==
    /\ Building
    /\ \E correlationId \in CorrelationIds :
           LET r == Allocate(heap, addKpi(correlationId).ret)
           IN  /\ "@overflow" \notin DOMAIN r.heap
               /\ op' = "addKpi"
               /\ args' = <<correlationId>>
               /\ origin' = "caller"
               /\ res' = Ret(r.value)
               /\ heap' = r.heap

HeapCall_addInsight ==
    /\ Building
    /\ \E correlationId \in CorrelationIds :
           LET r == addInsight_OnHeap(heap, "ref", correlationId)
           IN  /\ "@overflow" \notin DOMAIN r.heap
               /\ op' = "addInsight"
               /\ args' = <<Reference("ref"), correlationId>>
               /\ origin' = "caller"
               /\ res' = r.completion
               /\ heap' = r.heap

HeapCall_exportInsight ==
    /\ Building
    /\ \E correlationId \in CorrelationIds :
           LET r == exportInsight_OnHeap(heap, "config", correlationId)
           IN  /\ "@overflow" \notin DOMAIN r.heap
               /\ op' = "exportInsight"
               /\ args' = <<Reference("config"), correlationId>>
               /\ origin' = "caller"
               /\ res' = r.completion
               /\ heap' = r.heap

(* After building, the caller assigns a string to a property of an object  *)
\* it holds: its ref, its config, or an object of a command it was given.
CallerWrites ==
    /\ Building
    /\ op # "none"
    /\ \E a \in DOMAIN heap :
       \E k \in DOMAIN heap[a].props \cup {"identifier", "title"} :
           /\ op' = "write"
           /\ args' = <<Reference(a), Str(k), Str("changed")>>
           /\ origin' = "caller"
           /\ res' = Ret(Undefined)
           /\ heap' = [heap EXCEPT ![a] =
                           Obj([x \in DOMAIN heap[a].props \cup {k} |->
                                    IF x = k THEN Str("changed")
                                    ELSE heap[a].props[x]])]

HeapNext ==
    \/ HeapCall_guard
    \/ HeapCall_addKpi
    \/ HeapCall_addInsight
    \/ HeapCall_exportInsight
    \/ CallerWrites

HeapSpec == HeapInit /\ [][HeapNext]_vars

(***************************************************************************)
(* C1: a value constructed as variant X of a tagged union (only X's        *)
(* discriminator key, with a defined value) satisfies the guard of X and   *)
(* fails the guard of every other variant of the same union.               *)
(***************************************************************************)
C1_VariantGuardsSeparateConstructedValues ==
    \A U \in UnionTags : \A x \in U :
        (/\ op \in VariantGuards
         /\ VariantTag(op) \in U
         /\ ConstructedAs(args[1], x))
            => res = Ret(JsBool(VariantTag(op) = x))

C1_Witness ==
    /\ op = "isPopMeasureDefinition"
    /\ ConstructedAs(args[1], "measure")
    /\ res = Ret(JsFalse)

(***************************************************************************)
(* C2, as stated: whatever the value, a measure-definition guard that      *)
(* returns true is the only one of the four that does.                     *)
(***************************************************************************)
TrueGuards(guards, v) == {g \in guards : IsTrue(Guard(g, v))}

C2_AtMostOneMeasureGuardForEveryValue ==
    (op \in MeasureGuards /\ IsTrue(res))
        => TrueGuards(MeasureGuards, args[1]) = {op}

(***************************************************************************)
(* C2, amended: for a value that carries at most one of the keys measure,  *)
(* arithmeticMeasure, popMeasure, previousPeriodMeasure with a value other *)
(* than undefined, a measure-definition guard that returns true is the     *)
(* only one that does; for a value that carries several, exactly the       *)
(* guards of the carried keys return true.                                 *)
(***************************************************************************)
CarriedTags(keys, v) == {k \in keys : Carries(v, k)}

C2_AtMostOneMeasureGuardPerCarriedKey ==
    op \in MeasureGuards =>
        /\ (Cardinality(CarriedTags(MeasureDefinitionKeys, args[1])) <= 1 /\ IsTrue(res))
               => TrueGuards(MeasureGuards, args[1]) = {op}
        /\ IsTrue(res) <=> Carries(args[1], VariantTag(op))

C2_Witness ==
    /\ op = "isSimpleMeasureDefinition"
    /\ CarriedTags(MeasureDefinitionKeys, args[1]) = {"measure", "popMeasure"}
    /\ IsTrue(res)
    /\ IsTrue(isPopMeasureDefinition(args[1]))

(***************************************************************************)
(* C3, as stated: for a value that references an object (it carries uri or *)
(* identifier) exactly one of isObjectUriQualifier and                     *)
(* isObjIdentifierQualifier returns true.                                  *)
(***************************************************************************)
UriVerdict ==
    IF op = "isObjectUriQualifier" THEN res ELSE isObjectUriQualifier(args[1])

IdentifierVerdict ==
    IF op = "isObjIdentifierQualifier" THEN res ELSE isObjIdentifierQualifier(args[1])

C3_ExactlyOneQualifierGuard ==
    (op \in QualifierGuards /\ CarriedTags({"uri", "identifier"}, args[1]) # {})
        => IsTrue(UriVerdict) # IsTrue(IdentifierVerdict)

(***************************************************************************)
(* C3, amended: exactly one of the two guards returns true for a value     *)
(* that carries exactly one of uri and identifier; for a value that        *)
(* carries both, such as an ObjectMeta, both return true.                  *)
(***************************************************************************)
C3_QualifierGuardsFollowCarriedKeys ==
    op \in QualifierGuards =>
        LET carried == CarriedTags({"uri", "identifier"}, args[1])
        IN  /\ Cardinality(carried) = 1
                => IsTrue(UriVerdict) # IsTrue(IdentifierVerdict)
            /\ Cardinality(carried) = 2
                => IsTrue(UriVerdict) /\ IsTrue(IdentifierVerdict)

C3_Witness ==
    /\ op = "isObjIdentifierQualifier"
    /\ args[1] \in ObjectMetas
    /\ IsTrue(res)
    /\ IsTrue(isObjectUriQualifier(args[1]))

(***************************************************************************)
(* C4: every guard of the library returns false for null, undefined and    *)
(* the empty object.                                                       *)
(***************************************************************************)
C4_GuardsRejectEmptyInput ==
    (op \in GuardNames /\ args[1] \in {Null, Undefined, Obj(NoProps)})
        => res = Ret(JsFalse)

C4_Witness ==
    /\ op = "isSwitchToEdit"
    /\ args[1] = Null
    /\ res = Ret(JsFalse)

(***************************************************************************)
(* C5: isDateFilter(v) equals isAbsoluteDateFilter(v) or                   *)
(* isRelativeDateFilter(v), and isAttributeFilter(v) equals                *)
(* isPositiveAttributeFilter(v) or isNegativeAttributeFilter(v).           *)
(***************************************************************************)
C5_OrLaws ==
    /\ op = "isDateFilter" =>
           res = Ret(JsBool(\/ IsTrue(isAbsoluteDateFilter(args[1]))
                            \/ IsTrue(isRelativeDateFilter(args[1]))))
    /\ op = "isAttributeFilter" =>
           res = Ret(JsBool(\/ IsTrue(isPositiveAttributeFilter(args[1]))
                            \/ IsTrue(isNegativeAttributeFilter(args[1]))))

C5_Witness ==
    /\ op = "isDateFilter"
    /\ CarriedTags(FilterKeys, args[1]) = {"absoluteDateFilter"}
    /\ IsTrue(res)

(***************************************************************************)
(* C6: round trip.  Every factory, whatever its arguments (an omitted      *)
(* correlationId included), returns a command whose commandType is the     *)
(* documented literal, and the matching guard accepts that command.        *)
(***************************************************************************)
C6_FactoryRoundTrip ==
    /\ op \in FactoryNames =>
           /\ ~res.threw
           /\ Get(res.ret, "commandType") = Str(DocumentedLiteral[op])
    /\ (origin \in FactoryNames /\ op = MatchingGuard[origin])
           => res = Ret(JsTrue)

C6_Witness ==
    /\ op = "isSaveAsCommand"
    /\ origin = "saveInsightAs"
    /\ Get(args[1], "correlationId") = Undefined
    /\ res = Ret(JsTrue)

(***************************************************************************)
(* C7, as stated: an AFM guard returns true iff the value is not null, not *)
(* undefined, not the empty object, and possesses the discriminator        *)
(* property of the guard, whatever that property holds.                    *)
(***************************************************************************)
C7_TrueIffNonEmptyAndPossessesTag ==
    op \in AfmGuards =>
        (IsTrue(res) <=>
            /\ NonEmptyValue(args[1])
            /\ \E k \in AfmGuardTags[op] : Possesses(args[1], k))

(***************************************************************************)
(* C7, amended: an AFM guard returns true iff the value is not null, not   *)
(* undefined, not the empty object, and possesses the discriminator        *)
(* property of the guard with a value other than undefined; otherwise it   *)
(* returns false.  Nothing else of the value (what the property holds, the *)
(* sibling fields) enters the result.                                      *)
(***************************************************************************)
C7_TrueIffNonEmptyAndTagDefined ==
    op \in AfmGuards =>
        /\ res \in {Ret(JsTrue), Ret(JsFalse)}
        /\ IsTrue(res) <=>
               /\ NonEmptyValue(args[1])
               /\ \E k \in AfmGuardTags[op] : Carries(args[1], k)

C7_Witness ==
    /\ op = "isSimpleMeasureDefinition"
    /\ Possesses(args[1], "measure")
    /\ args[1].props["measure"] = Null
    /\ Cardinality(DOMAIN args[1].props) = 2
    /\ res = Ret(JsTrue)

(***************************************************************************)
(* C8: no guard throws.  Every call of a guard returns a boolean, and it   *)
(* returns false for a value of the wrong type (not an object) and for an  *)
(* object that lacks the property the guard reads.                         *)
(***************************************************************************)
TestedKeys(g) == IF g \in AfmGuards THEN AfmGuardTags[g] ELSE {GuardField(g)}

C8_GuardsNeverThrow ==
    op \in GuardNames =>
        /\ ~res.threw
        /\ res.ret \in {JsTrue, JsFalse}
        /\ (\/ args[1].kind # "object"
            \/ \A k \in TestedKeys(op) : ~Possesses(args[1], k))
               => res.ret = JsFalse

C8_Witness ==
    /\ op = "isAbsoluteDateFilter"
    /\ args[1].kind \in {"number", "boolean", "string", "array"}
    /\ ~isEmpty(args[1])
    /\ res = Ret(JsFalse)

(***************************************************************************)
(* C9: a command or event guard reads the candidate's emptiness and its    *)
(* commandType (eventType) only.  Any two non-empty candidates that agree  *)
(* on that field get the same answer, whatever else they hold: each gets   *)
(* the answer of the candidate stripped down to that one field.  So        *)
(* {commandType: 'adSave'}, without any payload, is a Save command.        *)
(***************************************************************************)
Stripped(v, field) == Obj(field :> Get(v, field))

C9_EmbeddingGuardsReadTypeFieldOnly ==
    /\ (op \in CommandGuards \cup EventGuards /\ ~isEmpty(args[1]))
           => res = Guard(op, Stripped(args[1], GuardField(op)))
    /\ (op = "isSaveCommand" /\ args[1] = Obj([commandType |-> Str("adSave")]))
           => res = Ret(JsTrue)

C9_Witness ==
    /\ op = "isSaveCommand"
    /\ args[1] = Obj([commandType |-> Str("adSave")])
    /\ res = Ret(JsTrue)

(***************************************************************************)
(* C10: a factory returns its arguments verbatim.  With a correlationId c, *)
(* saveInsight, saveInsightAs and save return {commandType, correlationId: *)
(* c, payload: {title}}, exportInsight returns {commandType,               *)
(* correlationId: c, payload: {config}}, and the factories without payload *)
(* return correlationId c.  No factory makes up or changes a               *)
(* correlationId: the field always holds the argument.                     *)
(***************************************************************************)
Command(type, correlationId, payload) ==
    Obj([commandType |-> Str(type), correlationId |-> correlationId,
         payload |-> payload])

C10_FactoriesCarryArguments ==
    /\ (op \in {"saveInsight", "saveInsightAs", "save"} /\ args[2] # Undefined)
           => res = Ret(Command(DocumentedLiteral[op], args[2],
                                Obj([title |-> args[1]])))
    /\ (op = "exportInsight" /\ args[2] # Undefined)
           => res = Ret(Command(DocumentedLiteral[op], args[2],
                                Obj([config |-> args[1]])))
    /\ (/\ op \in {"undo", "redo", "switchToEdit", "deleteDashboard",
                   "cancelEdit", "addFilter"}
        /\ args[1] # Undefined)
           => ~res.threw /\ Get(res.ret, "correlationId") = args[1]
    /\ op \in FactoryNames
           => ~res.threw /\ Get(res.ret, "correlationId") = args[Len(args)]

C10_Witness ==
    /\ op = "saveInsight"
    /\ args = <<Str("My Insight"), Str("corr-1")>>
    /\ res = Ret(Command("adSave", Str("corr-1"),
                         Obj([title |-> Str("My Insight")])))

(***************************************************************************)
(* C11: addKpi and addInsight build the same AddWidget command, with       *)
(* commandType "kdAddWidget", and differ only in the widget: addKpi yields *)
(* payload.widget = {type: "kpi"} without a ref, and addInsight(r, ..)     *)
(* yields payload.widget = {type: "insight", ref: r} for every ref r, be   *)
(* it {identifier} or {uri}.                                               *)
(***************************************************************************)
Widget(completion) == Get(Get(completion.ret, "payload"), "widget")

AddWidgetOf(correlationId, widget) ==
    Ret(Command("kdAddWidget", correlationId, Obj([widget |-> widget])))

C11_AddWidgetFactories ==
    /\ op = "addKpi"
           => /\ res = AddWidgetOf(args[1], Widget(res))
              /\ Widget(res) = Obj([type |-> Str("kpi")])
              /\ ~Possesses(Widget(res), "ref")
    /\ op = "addInsight"
           => /\ res = AddWidgetOf(args[2], Widget(res))
              /\ Widget(res) = Obj([type |-> Str("insight"), ref |-> args[1]])

C11_Witness ==
    /\ op = "addInsight"
    /\ args[1] = Obj([uri |-> Str("/gdc/md/p/obj/1")])
    /\ Widget(res) = Obj([type |-> Str("insight"),
                          ref |-> Obj([uri |-> Str("/gdc/md/p/obj/1")])])
    /\ Get(res.ret, "commandType") = Str("kdAddWidget")

(***************************************************************************)
(* C12: a factory called without a correlationId returns a command with    *)
(* no correlationId field: the keys of the result are exactly commandType, *)
(* plus payload for the commands that carry one; addKpi() is exactly       *)
(* {commandType: "kdAddWidget", payload: {widget: {type: "kpi"}}} and      *)
(* undo() is exactly {commandType: "adUndo"}.                              *)
(***************************************************************************)
PayloadFactories ==
    {"saveInsight", "saveInsightAs", "exportInsight", "save", "addKpi",
     "addInsight"}

CalledWithoutCorrelationId ==
    op \in FactoryNames /\ ~res.threw /\ args[Len(args)] = Undefined

Keys(v) == DOMAIN v.props

PayloadKey == IF op \in PayloadFactories THEN {"payload"} ELSE {}

C12_NoCorrelationIdField ==
    CalledWithoutCorrelationId
        => /\ Keys(res.ret) = {"commandType"} \cup PayloadKey
           /\ op = "undo" => res.ret = Obj([commandType |-> Str("adUndo")])
           /\ op = "addKpi"
                  => res.ret =
                         Obj([commandType |-> Str("kdAddWidget"),
                              payload |-> Obj([widget |->
                                                   Obj([type |-> Str("kpi")])])])

(***************************************************************************)
(* C12, as the code has it: a factory called without a correlationId       *)
(* returns a command that still has the correlationId key, holding         *)
(* undefined; its keys are commandType and correlationId, plus payload for *)
(* the commands that carry one, so undo() is {commandType: "adUndo",       *)
(* correlationId: undefined} and reading the field yields undefined.       *)
(***************************************************************************)
C12_CorrelationIdFieldHoldsUndefined ==
    CalledWithoutCorrelationId
        => /\ Keys(res.ret) = {"commandType", "correlationId"} \cup PayloadKey
           /\ res.ret.props["correlationId"] = Undefined
           /\ op = "undo"
                  => res.ret = Obj([commandType |-> Str("adUndo"),
                                    correlationId |-> Undefined])
           /\ op = "addKpi"
                  => res.ret =
                         Command("kdAddWidget", Undefined,
                                 Obj([widget |-> Obj([type |-> Str("kpi")])]))

C12_Witness ==
    /\ op = "undo"
    /\ args = <<Undefined>>
    /\ Keys(res.ret) = {"commandType", "correlationId"}
    /\ Get(res.ret, "correlationId") = Undefined

(***************************************************************************)
(* C13: the result of a factory has a payload field exactly when its       *)
(* command variant declares one: undo, redo, switchToEdit,                 *)
(* deleteDashboard, cancelEdit and addFilter return no payload field;      *)
(* saveInsight, saveInsightAs, exportInsight, save, addKpi and addInsight  *)
(* always return one.                                                      *)
(***************************************************************************)
BareFactories ==
    {"undo", "redo", "switchToEdit", "deleteDashboard", "cancelEdit",
     "addFilter"}

C13_PayloadExactlyWhenDeclared ==
    /\ op \in BareFactories => ~res.threw /\ ~Possesses(res.ret, "payload")
    /\ op \in PayloadFactories
           => /\ ~res.threw
              /\ Possesses(res.ret, "payload")
              /\ Get(res.ret, "payload").kind = "object"
    /\ op \in FactoryNames => op \in BareFactories \cup PayloadFactories

C13_Witness ==
    /\ op = "cancelEdit"
    /\ args = <<Str("corr-1")>>
    /\ Keys(res.ret) = {"commandType", "correlationId"}

(***************************************************************************)
(* C14: isCommandFailed is the one predicate for the failure event of both *)
(* applications.  It is true for every non-empty object whose eventType is *)
(* "appCommandFailed", whether payload.errorCode is an adError:* or a      *)
(* kdError:* code, and false for every object with any other eventType.    *)
(***************************************************************************)
ErrorCode(v) == Get(Get(v, "payload"), "errorCode")

HasEventType(v, literal) == Get(v, "eventType") = Str(literal)

C14_CommandFailedForBothApplications ==
    op = "isCommandFailed"
        => /\ (~isEmpty(args[1]) /\ HasEventType(args[1], "appCommandFailed"))
                  => IsTrue(res)
           /\ ~HasEventType(args[1], "appCommandFailed") => IsFalse(res)
           /\ (/\ HasEventType(args[1], "appCommandFailed")
               /\ ErrorCode(args[1]) \in
                      EnumValues(GdcAdErrorType) \cup EnumValues(GdcKdErrorType))
                  => IsTrue(res)

C14_Witness ==
    /\ op = "isCommandFailed"
    /\ HasEventType(args[1], "appCommandFailed")
    /\ ErrorCode(args[1]) = Str("kdError:invalidState")
    /\ res = Ret(JsTrue)

(***************************************************************************)
(* C15: each command and event predicate accepts exactly its documented    *)
(* literal, compared case-sensitively: a non-empty candidate is accepted   *)
(* if and only if its commandType (for a command predicate) or eventType   *)
(* (for an event predicate) is that very string, so a literal that differs *)
(* only in letter case, such as "adsave", is rejected.                     *)
(***************************************************************************)
AcceptedLiteral ==
    [isSaveCommand |-> "adSave", isSaveAsCommand |-> "adSaveAs",
     isExportCommand |-> "adExport", isUndoCommand |-> "adUndo",
     isRedoCommand |-> "adRedo",
     isNewInsightInitialized |-> "adNewInsightInitialized",
     isInsightOpened |-> "adInsightOpened", isInsightSaved |-> "adInsightSaved",
     isUndoFinishedEvent |-> "adUndoFinished",
     isRedoFinishedEvent |-> "adRedoFinished",
     isExportFinishedEvent |-> "adExportFinished",
     isSwitchToEdit |-> "kdSwitchToEdit",
     isDeleteDashboard |-> "kdDeleteDashboard", isCancelEdit |-> "kdCancelEdit",
     isSave |-> "kdSave", isAddWidget |-> "kdAddWidget",
     isAddFilter |-> "kdAddFilter", isDashboardLoaded |-> "kdDashboardLoaded",
     isSwitchedToEdit |-> "kdSwitchedToEdit",
     isSwitchedToView |-> "kdSwitchedToView",
     isDashboardSaved |-> "kdDashboardSaved",
     isDashboardDeleted |-> "kdDashboardDeleted",
     isWidgetAdded |-> "kdWidgetAdded", isFilterAdded |-> "kdFilterAdded"]

TypeLiteral(v, g) == Get(v, GuardField(g))

C15_GuardsAcceptExactlyTheirLiteral ==
    op \in DOMAIN AcceptedLiteral
        => /\ ~res.threw
           /\ IsTrue(res) <=> /\ ~isEmpty(args[1])
                              /\ TypeLiteral(args[1], op) = Str(AcceptedLiteral[op])
           /\ TypeLiteral(args[1], op) \in {Str("adsave"), Str("KDSAVE"),
                                            Str("adinsightsaved")}
                  => IsFalse(res)

C15_Witness ==
    /\ op = "isSaveCommand"
    /\ TypeLiteral(args[1], op) = Str("adsave")
    /\ res = Ret(JsFalse)

(***************************************************************************)
(* C16: every factory declares correlationId as an optional parameter, so  *)
(* each of the twelve factories may be called without a correlationId: in  *)
(* every call that passes none, the parameter left out is the factory's    *)
(* correlationId parameter and its declaration marks it optional.          *)
(***************************************************************************)
DeclaredParameters == AdFactoryParameters @@ KdFactoryParameters

C16_CorrelationIdIsOptionalInEveryFactory ==
    CalledWithoutCorrelationId
        => /\ Len(DeclaredParameters[op]) = Len(args)
           /\ DeclaredParameters[op][Len(args)].name = "correlationId"
           /\ DeclaredParameters[op][Len(args)].optional

(***************************************************************************)
(* C17: every type guard narrows to its own variant.  Whenever a guard of  *)
(* the embedding protocol returns true, the type it declares for the       *)
(* object is an envelope type, and that envelope's commandType/eventType   *)
(* literal is the one the object carries: an object accepted by            *)
(* isSaveAsCommand is narrowed to SaveAsCommand and one accepted by        *)
(* isInsightSaved to the InsightSaved envelope.                            *)
(***************************************************************************)
EnvelopeTypes == CommonEnvelopeTypes @@ AdEnvelopeTypes @@ KdEnvelopeTypes

GuardTypes == CommonGuardTypes @@ AdGuardTypes @@ KdGuardTypes

NarrowsToOwnVariant(g, v) ==
    /\ GuardTypes[g] \in DOMAIN EnvelopeTypes
    /\ EnvelopeTypes[GuardTypes[g]].field = GuardField(g)
    /\ Get(v, GuardField(g)) = Str(EnvelopeTypes[GuardTypes[g]].literal)

C17_GuardsNarrowToOwnVariant ==
    (op \in DOMAIN GuardTypes /\ IsTrue(res)) => NarrowsToOwnVariant(op, args[1])

(***************************************************************************)
(* C18: no predicate and no factory mutates its arguments.  Across every   *)
(* call of a guard on a caller's object, of addInsight on a caller's       *)
(* InsightRef and of exportInsight on a caller's IExportConfig, every      *)
(* object of the caller keeps exactly the fields and values it had before  *)
(* the call.                                                               *)
(***************************************************************************)
C18_CallsLeaveArgumentsUnchanged ==
    [][op' \in GuardNames \cup FactoryNames
           => \A a \in DOMAIN heap : a \in DOMAIN heap' /\ heap'[a] = heap[a]]_vars

C18_Witness ==
    /\ op = "addInsight"
    /\ args[1] = Reference("ref")
    /\ heap["ref"] = Obj([identifier |-> Str("abc")])
    /\ \E w \in DOMAIN heap :
           heap[w] = Obj([type |-> Str("insight"), ref |-> Reference("ref")])

(***************************************************************************)
(* C19: the factories validate nothing and cannot fail.  For every title,  *)
(* the empty string and a title with a newline included, every export      *)
(* config, the empty object included, and every insight ref, the call      *)
(* returns a command object of the factory's command type; it never throws *)
(* and never returns null, undefined or another error value.               *)
(***************************************************************************)
IsCommand(v, type) == v.kind = "object" /\ Get(v, "commandType") = Str(type)

C19_FactoriesCannotFail ==
    op \in FactoryNames
        => ~res.threw /\ IsCommand(res.ret, DocumentedLiteral[op])

C19_Witness ==
    /\ op = "save"
    /\ args[1] = Str("line1\nline2")
    /\ ~res.threw
    /\ IsCommand(res.ret, "kdSave")
    /\ Get(Get(res.ret, "payload"), "title") = Str("line1\nline2")

(***************************************************************************)
(* C20: every success event of both applications declares a payload that   *)
(* includes availableCommands, a list of command types of the same         *)
(* application: GdcAdCommandType[] for the AD events and                   *)
(* GdcKdCommandType[] for the KD events.  The payload of CommandFailed     *)
(* carries errorCode and errorMessage and no availableCommands.  This      *)
(* holds of every declared event envelope, and so of the declared payload  *)
(* of every message an event guard accepts.                                *)
(***************************************************************************)
DeclaredFields(bodies, body) ==
    bodies[body].fields
        \cup UNION {bodies[e].fields : e \in bodies[body].extends}

EventsOf(envelopes) ==
    {t \in DOMAIN envelopes : envelopes[t].field = "eventType"}

ListsCommandsOf(envelopes, bodies, t, commandType) ==
    /\ envelopes[t].payload \in DOMAIN bodies
    /\ [name |-> "availableCommands", type |-> commandType,
        optional |-> FALSE] \in DeclaredFields(bodies, envelopes[t].payload)
    /\ \A f \in DeclaredFields(bodies, envelopes[t].payload) :
           f.name = "availableCommands" => f.type = commandType

FailurePayloadDeclared ==
    {f.name : f \in DeclaredFields(CommonBodyTypes,
                                   CommonEnvelopeTypes.CommandFailed.payload)}
        = {"errorCode", "errorMessage"}

AcceptedEvent(envelopes) ==
    {t \in EventsOf(envelopes) :
         Get(args[1], "eventType") = Str(envelopes[t].literal)}

WrappedFilterGuards ==
    [isPositiveAttributeFilter |-> "positiveAttributeFilter",
     isNegativeAttributeFilter |-> "negativeAttributeFilter",
     isAbsoluteDateFilter |-> "absoluteDateFilter",
     isRelativeDateFilter |-> "relativeDateFilter",
     isMeasureValueFilter |-> "measureValueFilter"]

TrueExactlyForCarriers(key) ==
    /\ ~res.threw
    /\ IsTrue(res) <=> (NonEmptyValue(args[1]) /\ Carries(args[1], key))

WrappedExpressionFilter == Obj([expressionFilter |-> Obj([value |-> Str("SELECT 1")])])

FlatExpressionFilter == Obj([value |-> Str("SELECT 1")])

C21_FilterGuardsFollowWrapperKeys ==
    /\ op \in DOMAIN WrappedFilterGuards
           => TrueExactlyForCarriers(WrappedFilterGuards[op])
    /\ op = "isExpressionFilter"
           => /\ TrueExactlyForCarriers("expressionFilter")
              /\ args[1] = WrappedExpressionFilter => IsTrue(res)

(***************************************************************************)
(* C21, as the code has it: five filter shapes are wrapped under their own *)
(* key and their predicates return true exactly for the non-empty values   *)
(* whose wrapper key holds a value other than undefined.  The legacy       *)
(* expression filter is not wrapped: it is the flat object {value: s}, and *)
(* isExpressionFilter returns true exactly for the non-empty values whose  *)
(* value property is not undefined; it accepts {value: s} and rejects      *)
(* {expressionFilter: {value: s}}.                                         *)
(***************************************************************************)
C21_ExpressionFilterIsFlat ==
    /\ op \in DOMAIN WrappedFilterGuards
           => TrueExactlyForCarriers(WrappedFilterGuards[op])
    /\ op = "isExpressionFilter"
           => /\ TrueExactlyForCarriers("value")
              /\ args[1] = WrappedExpressionFilter => IsFalse(res)
              /\ args[1] = FlatExpressionFilter => IsTrue(res)

C21_Witness ==
    /\ op = "isExpressionFilter"
    /\ args[1] = WrappedExpressionFilter
    /\ res = Ret(JsFalse)

(***************************************************************************)
(* C22: a measure sort item {measureSortItem: {direction, locators}}       *)
(* satisfies isMeasureSortItem and fails isAttributeSortItem whatever its  *)
(* locators are, an empty or malformed list included, because the sort     *)
(* item predicates never look at the locators; a locator                   *)
(* {measureLocatorItem: ..} satisfies isMeasureLocatorItem and a locator   *)
(* {attributeLocatorItem: ..} fails it.                                    *)
(***************************************************************************)
Locators(v) == Get(Get(v, "measureSortItem"), "locators")

IsMeasureSortItemShape(v) ==
    /\ ConstructedAs(v, "measureSortItem")
    /\ DOMAIN Get(v, "measureSortItem").props = {"direction", "locators"}

WithLocators(v, l) ==
    Obj([measureSortItem |->
             Obj([direction |-> Get(Get(v, "measureSortItem"), "direction"),
                  locators |-> l])])

SampleLocators ==
    {Locators(v).props[i] : <<v, i>> \in
         {<<s, k>> \in AfmSamples \X {"0", "1"} : k \in DOMAIN Locators(s).props}}

C22_SortItemGuardsIgnoreLocators ==
    /\ (op = "isMeasureSortItem" /\ IsMeasureSortItemShape(args[1]))
           => res = Ret(JsTrue)
    /\ (op = "isAttributeSortItem" /\ IsMeasureSortItemShape(args[1]))
           => res = Ret(JsFalse)
    /\ (op \in {"isMeasureSortItem", "isAttributeSortItem"}
            /\ IsMeasureSortItemShape(args[1]))
           => res = Guard(op, WithLocators(args[1], Arr(NoProps)))
    /\ (op = "isMeasureLocatorItem" /\ args[1] \in SampleLocators)
           => /\ ConstructedAs(args[1], "measureLocatorItem") => res = Ret(JsTrue)
              /\ ConstructedAs(args[1], "attributeLocatorItem")
                     => res = Ret(JsFalse)

C22_Witness ==
    /\ op = "isMeasureSortItem"
    /\ IsMeasureSortItemShape(args[1])
    /\ Locators(args[1]) = Str("m1")
    /\ res = Ret(JsTrue)

(***************************************************************************)
(* C23: the exact acceptance criterion of every AFM predicate: the value   *)
(* is a non-empty collection in the sense of lodash isEmpty, which rejects *)
(* every number and boolean, the empty string, the empty array and the     *)
(* object without keys, and the discriminator property is not undefined.   *)
(* So a discriminator present with null is accepted ({uri: null}), one     *)
(* present with undefined is rejected ({uri: undefined}), and non-empty    *)
(* strings and arrays are rejected for having no such property.            *)
(***************************************************************************)
EmptyCollection(v) ==
    \/ v.kind \in {"null", "undefined", "number", "boolean"}
    \/ v \in {Str(""), Arr(NoProps), Obj(NoProps)}

DiscriminatorDefined(g, v) == \E k \in AfmGuardTags[g] : Get(v, k) # Undefined

C23_ExactAcceptanceCriterion ==
    op \in AfmGuards
        => /\ res = Ret(JsBool(~EmptyCollection(args[1])
                                   /\ DiscriminatorDefined(op, args[1])))
           /\ EmptyCollection(args[1]) <=> isEmpty(args[1])
           /\ args[1].kind \in {"string", "array"}
                  => ~DiscriminatorDefined(op, args[1]) /\ res = Ret(JsFalse)
           /\ (\E k \in AfmGuardTags[op] : args[1] = Obj(k :> Null))
                  => res = Ret(JsTrue)
           /\ (\E k \in AfmGuardTags[op] : args[1] = Obj(k :> Undefined))
                  => res = Ret(JsFalse)

C23_Witness ==
    /\ op = "isObjectUriQualifier"
    /\ args[1] = Obj([uri |-> Null])
    /\ res = Ret(JsTrue)

(***************************************************************************)
(* C24: across both applications a message satisfies at most one of the 11 *)
(* command predicates and at most one of the 14 event predicates, since    *)
(* the command type literals are pairwise distinct and so are the event    *)
(* type literals; an AD Save ("adSave") is never accepted by the KD isSave *)
(* and a KD Save ("kdSave") never by isSaveCommand.  A message satisfies a *)
(* command predicate and an event predicate together only if it has both   *)
(* a commandType and an eventType field.                                   *)
(***************************************************************************)
CommandLiterals == EnumValues(GdcAdCommandType) \cup EnumValues(GdcKdCommandType)

EventLiterals ==
    EnumValues(GdcAdEventType) \cup EnumValues(GdcKdEventType)
        \cup {Str(AppCommandFailed)}

Family(g) == IF g \in CommandGuards THEN CommandGuards ELSE EventGuards

C24_AtMostOneCommandAndOneEventGuard ==
    /\ Cardinality(CommandGuards) = 11 /\ Cardinality(CommandLiterals) = 11
    /\ Cardinality(EventGuards) = 14 /\ Cardinality(EventLiterals) = 14
    /\ (op \in CommandGuards \cup EventGuards /\ IsTrue(res))
           => /\ TrueGuards(Family(op), args[1]) = {op}
              /\ TrueGuards(CommandGuards \cup EventGuards, args[1]) # {op}
                     => /\ Carries(args[1], "commandType")
                        /\ Carries(args[1], "eventType")
    /\ (op = "isSave" /\ Get(args[1], "commandType") = Str("adSave"))
           => res = Ret(JsFalse)
    /\ (op = "isSaveCommand" /\ Get(args[1], "commandType") = Str("kdSave"))
           => res = Ret(JsFalse)

C24_Witness ==
    /\ op = "isCommandFailed"
    /\ res = Ret(JsTrue)
    /\ TrueGuards(CommandGuards \cup EventGuards, args[1])
           = {"isCommandFailed", "isSave"}

(***************************************************************************)
(* C25: each factory call builds a new command object and a new payload    *)
(* and widget object, so commands of different calls share no structure    *)
(* and a change made to one never changes another.  The only parts shared  *)
(* with the caller are the arguments: addInsight stores the very ref       *)
(* object it was given as payload.widget.ref and exportInsight the very    *)
(* config object as payload.config, without a copy, so a later change the  *)
(* caller makes to that ref or config shows in the command already built.  *)
(***************************************************************************)
CallerObjects == {"ref", "config", "value"}

RECURSIVE Owned(_, _)
(* The addresses of the object at a and of all it refers to. *)
Owned(h, a) ==
    {a} \cup UNION {Owned(h, h[a].props[k].prim) :
                        k \in {x \in DOMAIN h[a].props :
                                   h[a].props[x].kind = "reference"}}

RECURSIVE Deep(_, _)
(* The value as a reader sees it, every reference followed. *)
Deep(h, v) ==
    CASE v.kind = "reference" -> Deep(h, h[v.prim])
      [] v.kind = "object" -> Obj([k \in DOMAIN v.props |-> Deep(h, v.props[k])])
      [] OTHER -> v

Commands(h) ==
    {a \in DOMAIN h \ CallerObjects : "commandType" \in DOMAIN h[a].props}

Created(h, c) == Owned(h, c) \ CallerObjects

ArgumentStored(h, c) ==
    LET payload == h[h[c].props["payload"].prim]
    IN  CASE op = "addInsight"
               -> h[payload.props["widget"].prim].props["ref"] = args[1]
          [] op = "exportInsight" -> payload.props["config"] = args[1]
          [] OTHER -> Owned(h, c) \cap CallerObjects = {}

NoSharedStructure ==
    \A c1, c2 \in Commands(heap) :
        c1 # c2 => Owned(heap, c1) \cap Owned(heap, c2) \subseteq CallerObjects

BuildsNewObjects ==
    op' \in {"addKpi", "addInsight", "exportInsight"}
        => /\ res'.ret.kind = "reference"
           /\ Created(heap', res'.ret.prim) \cap DOMAIN heap = {}
           /\ Cardinality(Created(heap', res'.ret.prim))
                  = IF op' = "exportInsight"
                    THEN Cardinality({"command", "payload"})
                    ELSE Cardinality({"command", "payload", "widget"})
           /\ \A c \in Commands(heap) : Deep(heap', Reference(c)) = Deep(heap, Reference(c))

WriteReaches ==
    op' = "write"
        => \A c \in Commands(heap) :
               /\ args'[1].prim \notin Owned(heap, c)
                      => Deep(heap', Reference(c)) = Deep(heap, Reference(c))
               /\ (args'[1].prim \in Owned(heap, c) \cap CallerObjects)
                      => Deep(heap', Reference(c)) # Deep(heap, Reference(c))

C25_FreshCommandsSharedArguments ==
    /\ [](op \in {"addKpi", "addInsight", "exportInsight"}
              => NoSharedStructure /\ ArgumentStored(heap, res.ret.prim))
    /\ [][BuildsNewObjects /\ WriteReaches]_vars

C25_Witness ==
    /\ op = "write"
    /\ args[1] = Reference("ref")
    /\ \E c \in Commands(heap) :
           /\ Get(Get(Get(Deep(heap, Reference(c)), "payload"), "widget"), "ref")
                  = heap["ref"]
           /\ Get(heap["ref"], "identifier") = Str("changed")
    /\ Cardinality(Commands(heap)) = Cardinality({"first", "second"})

(***************************************************************************)
(* C26: the message vocabulary is fully covered.  Every member of          *)
(* GdcAdCommandType and GdcKdCommandType has exactly one type guard and at *)
(* least one factory that produces it (AddWidget has two, addKpi and       *)
(* addInsight); every member of GdcAdEventType and GdcKdEventType has      *)
(* exactly one type guard and no factory; no two predicates test the same  *)
(* literal.                                                                *)
(***************************************************************************)
Produce(f) ==
    CASE f = "saveInsight" -> saveInsight(Str("My Insight"), Undefined)
      [] f = "saveInsightAs" -> saveInsightAs(Str("My Insight"), Undefined)
      [] f = "exportInsight" -> exportInsight(Obj(NoProps), Undefined)
      [] f = "undo" -> undo(Undefined)
      [] f = "redo" -> redo(Undefined)
      [] f = "switchToEdit" -> switchToEdit(Undefined)
      [] f = "deleteDashboard" -> deleteDashboard(Undefined)
      [] f = "cancelEdit" -> cancelEdit(Undefined)
      [] f = "save" -> save(Str("My Insight"), Undefined)
      [] f = "addKpi" -> addKpi(Undefined)
      [] f = "addInsight" -> addInsight(Obj([identifier |-> Str("abc")]), Undefined)
      [] f = "addFilter" -> addFilter(Undefined)

GuardsOf(field, literal) ==
    TrueGuards(CommandGuards \cup EventGuards, Obj(field :> literal))

FactoriesOf(field, literal) ==
    {f \in FactoryNames : Get(Produce(f).ret, field) = literal}

VocabularyCovered ==
    /\ \A l \in CommandLiterals :
           /\ Cardinality(GuardsOf("commandType", l)) = 1
           /\ GuardsOf("commandType", l) \subseteq CommandGuards
           /\ FactoriesOf("commandType", l) # {}
    /\ FactoriesOf("commandType", Str(GdcKdCommandType.AddWidget))
           = {"addKpi", "addInsight"}
    /\ \A l \in EventLiterals :
           /\ Cardinality(GuardsOf("eventType", l)) = 1
           /\ GuardsOf("eventType", l) \subseteq EventGuards
           /\ FactoriesOf("eventType", l) = {}
           /\ FactoriesOf("commandType", l) = {}
    /\ \A g \in CommandGuards \cup EventGuards :
           \E l \in CommandLiterals \cup EventLiterals :
               g \in GuardsOf(GuardField(g), l)

C26_VocabularyCovered ==
    /\ op \in FactoryNames
           => /\ VocabularyCovered
              /\ Get(res.ret, "commandType") \in CommandLiterals
              /\ op \in FactoriesOf("commandType", Get(res.ret, "commandType"))
              /\ ~Possesses(res.ret, "eventType")
    /\ (op \in CommandGuards \cup EventGuards /\ IsTrue(res))
           => /\ Get(args[1], GuardField(op)) \in CommandLiterals \cup EventLiterals
              /\ GuardsOf(GuardField(op), Get(args[1], GuardField(op))) = {op}

C26_Witness ==
    /\ op = "addKpi"
    /\ Get(res.ret, "commandType") = Str("kdAddWidget")
    /\ FactoriesOf("commandType", Get(res.ret, "commandType"))
           = {"addKpi", "addInsight"}
    /\ GuardsOf("commandType", Get(res.ret, "commandType")) = {"isAddWidget"}

====
